---- MODULE Spec2Model ----
(***************************************************************************)
(* Stratagem game simulator: run_game_sync (evaluation/benchmark.py), the  *)
(* stub defender and attacker (agents/stubs.py), evaluate_round and        *)
(* create_initial_state (game/graph.py), DefenderState.deploy              *)
(* (game/state.py), the defender deployment tools                          *)
(* (agents/tools/defender_tools.py) and extract_trial_result               *)
(* (evaluation/metrics.py).                                                *)
(*                                                                         *)
(* Units: money (budget, cost, total_spent) in tenths; probabilities       *)
(* (detection_probability, noise, base_success_rate) in percent; one       *)
(* PRNG output r in [0,1) is the integer floor(r * 10000).                 *)
(***************************************************************************)
EXTENDS Integers, Sequences, FiniteSets, TLC

VARIABLES call, run, twin, mt, ctx, bench

vars == <<call, run, twin, mt, ctx, bench>>

\* ------------------------------------------------------------------ bounds
MaxRounds == 2
MaxPathLen == 2
MaxDeploy == 2
MaxToolCalls == 3
MaxWalkLen == 3
MaxTrials == 2
MaxNames == 2

\* ------------------------------------------------------------- sentinels
None == "None"
\* Integers standing for None where the code has `int | None` or a missing
\* number: seed=None, detection_round=None, an action without a noise key.
NoSeed == -100
NoRound == -1
NoNoise == -1

Min(a, b) == IF a < b THEN a ELSE b

\* ------------------------------------------------- environment/deception.py
\* The asset templates built by honeypot(), decoy_credential(), honeytoken().
honeypot(node_id) ==
    [asset_type |-> "honeypot", node_id |-> node_id,
     detection_probability |-> 85, cost |-> 30, triggered |-> FALSE]

decoy_credential(node_id) ==
    [asset_type |-> "decoy_credential", node_id |-> node_id,
     detection_probability |-> 70, cost |-> 15, triggered |-> FALSE]

honeytoken(node_id) ==
    [asset_type |-> "honeytoken", node_id |-> node_id,
     detection_probability |-> 50, cost |-> 10, triggered |-> FALSE]

\* _ASSET_FACTORIES: asset type name -> factory
AssetFactoryNames == {"honeypot", "decoy_credential", "honeytoken"}

AssetFactory(asset_type, node_id) ==
    CASE asset_type = "honeypot" -> honeypot(node_id)
      [] asset_type = "decoy_credential" -> decoy_credential(node_id)
      [] asset_type = "honeytoken" -> honeytoken(node_id)

\* -------------------------------------------- environment/attack_surface.py
AccessRank(a) ==
    CASE a = "none" -> 0
      [] a = "user" -> 1
      [] a = "root" -> 2

Tech(id, rate, noise, req, grants, services, os) ==
    [id |-> id, base_success_rate |-> rate, noise |-> noise,
     required_access |-> req, grants_access |-> grants,
     required_services |-> services, supported_os |-> os]

\* supported_os = None is the empty set here: applicable_to tests its
\* truthiness, and None and frozenset() are both false.
TECHNIQUE_CATALOG == <<
    Tech("T1190", 35, 40, "none", "user", {"http", "https"}, {}),
    Tech("T1133", 30, 30, "none", "user", {"ssh", "rdp"}, {}),
    Tech("T1059.004", 80, 20, "user", "user", {"ssh"}, {"linux"}),
    Tech("T1059.001", 80, 30, "user", "user", {"smb", "rdp"}, {"windows"}),
    Tech("T1068", 25, 50, "user", "root", {}, {}),
    Tech("T1078", 40, 10, "user", "root", {}, {}),
    Tech("T1110", 20, 70, "none", "user", {"ssh", "rdp", "ftp"}, {}),
    Tech("T1003", 55, 40, "root", "root", {}, {}),
    Tech("T1552", 45, 15, "user", "user", {}, {}),
    Tech("T1046", 90, 35, "user", "user", {}, {}),
    Tech("T1083", 95, 10, "user", "user", {}, {}),
    Tech("T1021.001", 50, 30, "user", "user", {"rdp"}, {"windows"}),
    Tech("T1021.004", 55, 20, "user", "user", {"ssh"}, {"linux"}),
    Tech("T1021.002", 45, 35, "root", "user", {"smb"}, {"windows"}),
    Tech("T1210", 30, 50, "user", "user",
         {"http", "https", "mysql", "postgresql"}, {}),
    Tech("T1005", 85, 15, "user", "user", {}, {}),
    Tech("T1039", 75, 20, "user", "user", {"smb", "ftp"}, {}),
    Tech("T1041", 70, 45, "user", "user", {}, {}),
    Tech("T1048", 60, 25, "user", "user", {"dns", "ftp"}, {}) >>

applicable_to(tech, node) ==
    IF tech.supported_os # {} /\ node.os \notin tech.supported_os THEN FALSE
    ELSE IF tech.required_services = {} THEN TRUE
    ELSE tech.required_services \cap node.services # {}

get_applicable_techniques(node, attacker_access) ==
    SelectSeq(TECHNIQUE_CATALOG,
              LAMBDA tech :
                  /\ ~(AccessRank(tech.required_access) > AccessRank(attacker_access))
                  /\ applicable_to(tech, node))

\* max(techniques, key=lambda t: t.base_success_rate): the first maximum.
MaxBySuccessRate(techniques) ==
    techniques[CHOOSE i \in 1..Len(techniques) :
        /\ \A j \in 1..Len(techniques) :
              techniques[j].base_success_rate <= techniques[i].base_success_rate
        /\ \A j \in 1..(i - 1) :
              techniques[j].base_success_rate < techniques[i].base_success_rate]

\* ------------------------------------------------- environment/network.py
NodeAttributes(node_type, os, services, value, is_entry_point) ==
    [node_type |-> node_type, os |-> os, services |-> services,
     value |-> value, compromised |-> FALSE, is_entry_point |-> is_entry_point]

\* add_edge on the undirected nx.Graph: an edge is its pair of end nodes.
Edge(src, dst, segment) == [ends |-> {src, dst}, segment |-> segment]

\* A four-node network built with add_node / add_edge: two entry points
\* (the first has no technique applicable without access), a node of
\* value 0 and a high-value database.
TopoEnterprise ==
    [name |-> "enterprise",
     nodes |-> <<"fw-ext", "web-1", "router-1", "db-1">>,
     attrs |-> [n \in {"fw-ext", "web-1", "router-1", "db-1"} |->
        CASE n = "fw-ext" ->
                NodeAttributes("firewall", "linux", {"dns"}, 2, TRUE)
          [] n = "web-1" ->
                NodeAttributes("server", "linux", {"http", "https", "ssh"}, 4, TRUE)
          [] n = "router-1" ->
                NodeAttributes("router", "linux", {"ssh"}, 0, FALSE)
          [] n = "db-1" ->
                NodeAttributes("database", "linux", {"mysql", "ftp"}, 9, FALSE)],
     edges |-> {Edge("fw-ext", "web-1", "dmz"),
                Edge("web-1", "router-1", "dmz-to-lan"),
                Edge("router-1", "db-1", "lan-to-db"),
                Edge("web-1", "db-1", "lan-to-db")}]

\* The topology of tests/test_graph.py::test_no_entry_points.
TopoNoEntry ==
    [name |-> "empty",
     nodes |-> <<"n1">>,
     attrs |-> [n \in {"n1"} |-> NodeAttributes("server", "linux", {"ssh"}, 5, FALSE)],
     edges |-> {}]

Topologies == {TopoEnterprise, TopoNoEntry}

NodeSet(topology) == {topology.nodes[i] : i \in 1..Len(topology.nodes)}

get_attrs(topology, node_id) == topology.attrs[node_id]

neighbors(topology, node_id) ==
    {n \in NodeSet(topology) :
        \E e \in topology.edges : e.ends = {node_id, n} /\ n # node_id}

entry_points(topology) ==
    SelectSeq(topology.nodes, LAMBDA n : topology.attrs[n].is_entry_point)

set_compromised(topology, node_id) ==
    [topology EXCEPT !.attrs[node_id].compromised = TRUE]

SeqToSet(s) == {s[i] : i \in 1..Len(s)}

\* ------------------------------------------------------------ game/state.py
AttackerState(position) ==
    [position |-> position, access_levels |-> [n \in {} |-> "none"], path |-> << >>,
     compromised_nodes |-> << >>, exfiltrated_value |-> 0, detected |-> FALSE]

\* access_levels.get(node_id, AccessLevel.NONE)
AccessGet(access_levels, node_id) ==
    IF node_id \in DOMAIN access_levels THEN access_levels[node_id] ELSE "none"

\* access_levels[node_id] = level
AccessSet(access_levels, node_id, level) ==
    [n \in (DOMAIN access_levels) \cup {node_id} |->
        IF n = node_id THEN level ELSE access_levels[n]]

DefenderState(budget) ==
    [budget |-> budget, deployed_assets |-> << >>, total_spent |-> 0]

remaining_budget(defender) == defender.budget - defender.total_spent

\* Variant: a cost equal to the remaining budget is refused.
can_affordStrict(defender, cost) == remaining_budget(defender) > cost

can_afford(defender, cost) == remaining_budget(defender) >= cost

\* DefenderState.deploy: the defender after the call and the returned flag.
deploy(defender, asset) ==
    IF ~can_afford(defender, asset.cost)
    THEN [defender |-> defender, ok |-> FALSE]
    ELSE [defender |-> [defender EXCEPT
                            !.deployed_assets = Append(@, asset),
                            !.total_spent = @ + asset.cost],
          ok |-> TRUE]

DetectionEvent(round, node_id, asset_type, technique_id) ==
    [round |-> round, node_id |-> node_id, asset_type |-> asset_type,
     technique_id |-> technique_id]

\* ------------------------------------------------------------ game/graph.py
\* create_initial_state raises ValueError.
\* Variant: a supplied entry point is not looked up among the entry points.
CreateInitialStateRaisesOnlyEmpty(topology, entry_point) ==
    entry_points(topology) = << >>

CreateInitialStateRaises(topology, entry_point) ==
    \/ entry_points(topology) = << >>
    \/ entry_point # None /\ entry_point \notin SeqToSet(entry_points(topology))

\* create_initial_state, when it returns.
create_initial_state(topology, budget, max_rounds, entry_point) ==
    LET ep == IF entry_point = None THEN entry_points(topology)[1] ELSE entry_point
        attacker == [AttackerState(ep) EXCEPT
                        !.path = Append(@, ep),
                        !.access_levels = AccessSet(@, ep, "none")]
    IN [topology |-> topology,
        attacker |-> attacker,
        defender |-> DefenderState(budget),
        detections |-> << >>,
        actions_log |-> << >>,
        current_round |-> 1,
        max_rounds |-> max_rounds,
        game_over |-> FALSE,
        winner |-> ""]

\* action.get("noise", 0.3): a move action carries no noise key.
ActionNoise(action) == IF action.noise = NoNoise THEN 30 ELSE action.noise

\* Variant: the noise of the action is left out of the product.
DetectionRollNoNoise(asset, action) ==
    Min(asset.detection_probability * 100, 10000)

\* min(asset.detection_probability * (1 + noise), 1.0), times 10000
DetectionRoll(asset, action) ==
    Min(asset.detection_probability * (100 + ActionNoise(action)), 10000)

\* Variant: an asset that has triggered is rolled again.
RECURSIVE DetectionLoopRerolls(_, _, _, _, _)
DetectionLoopRerolls(actions, current_round, s, k, acc) ==
    LET D == Len(acc.defender.deployed_assets) IN
    IF D = 0 \/ k >= Len(actions) * D THEN acc
    ELSE
        LET action == actions[(k \div D) + 1]
            j == (k % D) + 1
            asset == acc.defender.deployed_assets[j]
        IN  IF asset.node_id # action.node_id
            THEN DetectionLoopRerolls(actions, current_round, s, k + 1, acc)
            ELSE IF s[acc.used + 1] < DetectionRoll(asset, action)
            THEN DetectionLoopRerolls(actions, current_round, s, k + 1,
                    [acc EXCEPT
                        !.defender.deployed_assets[j].triggered = TRUE,
                        !.attacker.detected = TRUE,
                        !.detections = Append(@,
                            DetectionEvent(current_round, action.node_id,
                                           asset.asset_type, action.technique_id)),
                        !.used = @ + 1])
            ELSE DetectionLoopRerolls(actions, current_round, s, k + 1,
                    [acc EXCEPT !.used = @ + 1])

\* Variant: the loops are nested the other way round, assets outside and
\* actions inside.
RECURSIVE DetectionLoopAssetMajor(_, _, _, _, _)
DetectionLoopAssetMajor(actions, current_round, s, k, acc) ==
    LET D == Len(acc.defender.deployed_assets)
        A == Len(actions) IN
    IF D = 0 \/ k >= A * D THEN acc
    ELSE
        LET action == actions[(k % A) + 1]
            j == (k \div A) + 1
            asset == acc.defender.deployed_assets[j]
        IN  IF asset.node_id # action.node_id \/ asset.triggered
            THEN DetectionLoopAssetMajor(actions, current_round, s, k + 1, acc)
            ELSE IF s[acc.used + 1] < DetectionRoll(asset, action)
            THEN DetectionLoopAssetMajor(actions, current_round, s, k + 1,
                    [acc EXCEPT
                        !.defender.deployed_assets[j].triggered = TRUE,
                        !.attacker.detected = TRUE,
                        !.detections = Append(@,
                            DetectionEvent(current_round, action.node_id,
                                           asset.asset_type, action.technique_id)),
                        !.used = @ + 1])
            ELSE DetectionLoopAssetMajor(actions, current_round, s, k + 1,
                    [acc EXCEPT !.used = @ + 1])

\* The two nested loops of evaluate_round, flattened: step k looks at
\* action k \div D and deployed asset k % D (D deployed assets; the assets
\* of another node are the ones assets_on_node leaves out).  acc.used counts
\* the rng.random() calls made so far, s is the generator's output stream.
RECURSIVE DetectionLoop(_, _, _, _, _)
DetectionLoop(actions, current_round, s, k, acc) ==
    LET D == Len(acc.defender.deployed_assets) IN
    IF D = 0 \/ k >= Len(actions) * D THEN acc
    ELSE
        LET action == actions[(k \div D) + 1]
            j == (k % D) + 1
            asset == acc.defender.deployed_assets[j]
        IN  IF asset.node_id # action.node_id \/ asset.triggered
            THEN DetectionLoop(actions, current_round, s, k + 1, acc)
            ELSE IF s[acc.used + 1] < DetectionRoll(asset, action)
            THEN DetectionLoop(actions, current_round, s, k + 1,
                    [acc EXCEPT
                        !.defender.deployed_assets[j].triggered = TRUE,
                        !.attacker.detected = TRUE,
                        !.detections = Append(@,
                            DetectionEvent(current_round, action.node_id,
                                           asset.asset_type, action.technique_id)),
                        !.used = @ + 1])
            ELSE DetectionLoop(actions, current_round, s, k + 1,
                    [acc EXCEPT !.used = @ + 1])

\* Variant: the round limit is tested before the detection.
WinConditionsRoundLimitFirst(detected, next_round, max_rounds, exfiltrated_value) ==
    IF next_round > max_rounds
    THEN [game_over |-> TRUE,
          winner |-> IF exfiltrated_value > 0 THEN "attacker" ELSE "defender"]
    ELSE IF detected THEN [game_over |-> TRUE, winner |-> "defender"]
    ELSE [game_over |-> FALSE, winner |-> ""]

\* Variant: the round limit is compared with >= max_rounds + 2.
WinConditionsLateLimit(detected, next_round, max_rounds, exfiltrated_value) ==
    IF detected THEN [game_over |-> TRUE, winner |-> "defender"]
    ELSE IF next_round > max_rounds + 1
    THEN [game_over |-> TRUE,
          winner |-> IF exfiltrated_value > 0 THEN "attacker" ELSE "defender"]
    ELSE [game_over |-> FALSE, winner |-> ""]

\* Variant: surviving the round limit is an attacker win whatever was
\* exfiltrated.
WinConditionsSurvivorWins(detected, next_round, max_rounds, exfiltrated_value) ==
    IF detected THEN [game_over |-> TRUE, winner |-> "defender"]
    ELSE IF next_round > max_rounds
    THEN [game_over |-> TRUE, winner |-> "attacker"]
    ELSE [game_over |-> FALSE, winner |-> ""]

\* "Determine win conditions" of evaluate_round: game_over and winner.
WinConditions(detected, next_round, max_rounds, exfiltrated_value) ==
    IF detected THEN [game_over |-> TRUE, winner |-> "defender"]
    ELSE IF next_round > max_rounds
    THEN [game_over |-> TRUE,
          winner |-> IF exfiltrated_value > 0 THEN "attacker" ELSE "defender"]
    ELSE [game_over |-> FALSE, winner |-> ""]

\* Variant: the assets that triggered are taken out of the deployment.
evaluate_roundRetiresTriggered(state, s) ==
    LET acc == DetectionLoop(state.actions_log, state.current_round, s, 0,
                   [defender |-> state.defender, attacker |-> state.attacker,
                    detections |-> state.detections, used |-> 0])
        next_round == state.current_round + 1
        win == WinConditions(acc.attacker.detected, next_round,
                             state.max_rounds, acc.attacker.exfiltrated_value)
    IN [state |-> [state EXCEPT
                      !.attacker = acc.attacker,
                      !.defender = [acc.defender EXCEPT !.deployed_assets =
                          SelectSeq(@, LAMBDA a : ~a.triggered)],
                      !.detections = acc.detections,
                      !.actions_log = << >>,
                      !.current_round = next_round,
                      !.game_over = win.game_over,
                      !.winner = win.winner],
        draws |-> acc.used]

\* Variant: the pending actions are cleared only when the game ends.
evaluate_roundKeepsLog(state, s) ==
    LET acc == DetectionLoop(state.actions_log, state.current_round, s, 0,
                   [defender |-> state.defender, attacker |-> state.attacker,
                    detections |-> state.detections, used |-> 0])
        next_round == state.current_round + 1
        win == WinConditions(acc.attacker.detected, next_round,
                             state.max_rounds, acc.attacker.exfiltrated_value)
    IN [state |-> [state EXCEPT
                      !.attacker = acc.attacker,
                      !.defender = acc.defender,
                      !.detections = acc.detections,
                      !.actions_log = IF win.game_over THEN << >> ELSE @,
                      !.current_round = next_round,
                      !.game_over = win.game_over,
                      !.winner = win.winner],
        draws |-> acc.used]

\* evaluate_round: the state update merged into the state, and the number
\* of outputs taken from the round's generator.
evaluate_round(state, s) ==
    LET acc == DetectionLoop(state.actions_log, state.current_round, s, 0,
                   [defender |-> state.defender, attacker |-> state.attacker,
                    detections |-> state.detections, used |-> 0])
        next_round == state.current_round + 1
        win == WinConditions(acc.attacker.detected, next_round,
                             state.max_rounds, acc.attacker.exfiltrated_value)
    IN [state |-> [state EXCEPT
                      !.attacker = acc.attacker,
                      !.defender = acc.defender,
                      !.detections = acc.detections,
                      !.actions_log = << >>,
                      !.current_round = next_round,
                      !.game_over = win.game_over,
                      !.winner = win.winner],
        draws |-> acc.used]

\* ---------------------------------------------------------- agents/stubs.py
\* stub_defender raises KeyError at _ASSET_FACTORIES[asset_type].
StubDefenderRaises(actions) ==
    \E i \in 1..Len(actions) : actions[i][1] \notin AssetFactoryNames

\* Variant: the loop ends at the first deployment that is refused.
RECURSIVE StubDeployLoopStopAtFailure(_, _, _)
StubDeployLoopStopAtFailure(defender, actions, i) ==
    IF i > Len(actions) THEN defender
    ELSE LET res == deploy(defender, AssetFactory(actions[i][1], actions[i][2]))
         IN IF res.ok THEN StubDeployLoopStopAtFailure(res.defender, actions, i + 1)
            ELSE defender

\* The loop of stub_defender from pair i on.
RECURSIVE StubDeployLoop(_, _, _)
StubDeployLoop(defender, actions, i) ==
    IF i > Len(actions) THEN defender
    ELSE StubDeployLoop(
            deploy(defender, AssetFactory(actions[i][1], actions[i][2])).defender,
            actions, i + 1)

\* stub_defender, when it returns: to_state_update merged into the state.
stub_defender(state, actions) ==
    [state EXCEPT !.defender = StubDeployLoop(state.defender, actions, 1),
                  !.actions_log = << >>]

Action(kind, node_id, technique_id, noise) ==
    [action |-> kind, node_id |-> node_id, technique_id |-> technique_id,
     noise |-> noise]

\* Variant: a node's value is taken only the first time the attacker
\* moves onto it.
ExfiltrateStepFirstVisit(c, target, value) ==
    IF value > 0 /\ target \notin SeqToSet(SubSeq(c.attacker.path, 1,
                                                 Len(c.attacker.path) - 1))
    THEN [c EXCEPT
            !.attacker.exfiltrated_value = @ + value,
            !.actions_this_round = Append(@,
                Action("exfiltrate", target, "T1041", 45))]
    ELSE c

\* if attrs.value > 0: the exfiltration that follows a move.
ExfiltrateStep(c, target, value) ==
    IF value > 0
    THEN [c EXCEPT
            !.attacker.exfiltrated_value = @ + value,
            !.actions_this_round = Append(@,
                Action("exfiltrate", target, "T1041", 45))]
    ELSE c

\* Variant: the attacker moves whether or not it has access to the target.
MoveStepNoAccessCheck(c, target) ==
    ExfiltrateStep(
        [c EXCEPT
            !.attacker.position = target,
            !.attacker.path = Append(@, target),
            !.actions_this_round = Append(@,
                Action("move", target, "lateral_movement", NoNoise))],
        target, get_attrs(c.topology, target).value)

\* if access != AccessLevel.NONE: move to the target, then exfiltrate.
MoveStep(c, target) ==
    IF AccessGet(c.attacker.access_levels, target) = "none" THEN c
    ELSE ExfiltrateStep(
            [c EXCEPT
                !.attacker.position = target,
                !.attacker.path = Append(@, target),
                !.actions_this_round = Append(@,
                    Action("move", target, "lateral_movement", NoNoise))],
            target, get_attrs(c.topology, target).value)

\* Variant: the execute action is logged only when the roll fails.
ExecuteStepSilentSuccess(c, target, roll, best) ==
    LET success == roll <= best.base_success_rate * 100
        fresh == success /\ target \notin SeqToSet(c.attacker.compromised_nodes)
    IN [c EXCEPT
            !.attacker.access_levels =
                IF success /\ AccessRank(best.grants_access) >
                                AccessRank(AccessGet(@, target))
                THEN AccessSet(@, target, best.grants_access)
                ELSE @,
            !.attacker.compromised_nodes =
                IF fresh THEN Append(@, target) ELSE @,
            !.topology = IF fresh THEN set_compromised(@, target) ELSE @,
            !.actions_this_round =
                IF success THEN @
                ELSE Append(@, Action("execute", target, best.id, best.noise)),
            !.draws = @ + 1]

\* The roll for the technique `best` against a target not yet accessed,
\* and the execute action logged whatever the outcome.
ExecuteStep(c, target, roll, best) ==
    LET success == roll <= best.base_success_rate * 100
        fresh == success /\ target \notin SeqToSet(c.attacker.compromised_nodes)
    IN [c EXCEPT
            !.attacker.access_levels =
                IF success /\ AccessRank(best.grants_access) >
                                AccessRank(AccessGet(@, target))
                THEN AccessSet(@, target, best.grants_access)
                ELSE @,
            !.attacker.compromised_nodes =
                IF fresh THEN Append(@, target) ELSE @,
            !.topology = IF fresh THEN set_compromised(@, target) ELSE @,
            !.actions_this_round = Append(@,
                Action("execute", target, best.id, best.noise)),
            !.draws = @ + 1]

\* The techniques tried against a target the attacker has no access to.
TargetTechniques(c, target) ==
    get_applicable_techniques(get_attrs(c.topology, target),
                              AccessGet(c.attacker.access_levels, target))

\* One step of stub_attacker towards a neighbouring target: compromise it
\* if the attacker has no access there yet, then move and exfiltrate.
AttemptStep(c, target, roll) ==
    IF AccessGet(c.attacker.access_levels, target) = "none"
    THEN MoveStep(ExecuteStep(c, target, roll,
                              MaxBySuccessRate(TargetTechniques(c, target))),
                  target)
    ELSE MoveStep(c, target)

\* The `continue` cases of the path loop: the target is the position, is
\* no neighbour of it, or offers no applicable technique.
SkipsTarget(c, target) ==
    \/ target = c.attacker.position
    \/ target \notin neighbors(c.topology, c.attacker.position)
    \/ /\ AccessGet(c.attacker.access_levels, target) = "none"
       /\ TargetTechniques(c, target) = << >>

\* for target in path: ... of stub_attacker, from path index i on.
RECURSIVE PathLoop(_, _, _, _)
PathLoop(c, path, i, roll) ==
    IF i > Len(path) THEN c
    ELSE IF SkipsTarget(c, path[i]) THEN PathLoop(c, path, i + 1, roll)
    ELSE AttemptStep(c, path[i], roll)

\* stub_attacker: the state update merged into the state, and the number of
\* outputs taken from ctx.rng (s is that generator's output stream).
stub_attacker(state, path, s) ==
    LET c == PathLoop([topology |-> state.topology, attacker |-> state.attacker,
                       actions_this_round |-> << >>, draws |-> 0],
                      path, 1, s[1])
    IN [state |-> [state EXCEPT
                      !.topology = c.topology,
                      !.attacker = c.attacker,
                      !.actions_log = c.actions_this_round],
        draws |-> c.draws]

\* ------------------------------------------------------ evaluation/metrics.py
MinRound(detections) ==
    CHOOSE m \in {detections[i].round : i \in 1..Len(detections)} :
        \A i \in 1..Len(detections) : m <= detections[i].round

\* Variant: the round counter itself, not the rounds completed.
RoundsPlayedOffByOne(final_state) == final_state.current_round

\* rounds_played = final_state["current_round"] - 1
RoundsPlayed(final_state) == final_state.current_round - 1

extract_trial_result(final_state) ==
    LET detected == final_state.attacker.detected
        detections == final_state.detections
        detection_round == IF detected /\ detections # << >>
                           THEN MinRound(detections) ELSE NoRound
        rounds_played == RoundsPlayed(final_state)
        dwell_time == IF detection_round # NoRound THEN detection_round
                      ELSE rounds_played
    IN [winner |-> final_state.winner,
        rounds_played |-> rounds_played,
        max_rounds |-> final_state.max_rounds,
        detected |-> detected,
        detection_round |-> detection_round,
        num_detections |-> Len(detections),
        attacker_dwell_time |-> dwell_time,
        exfiltrated_value |-> final_state.attacker.exfiltrated_value,
        nodes_compromised |-> Len(final_state.attacker.compromised_nodes),
        defender_budget |-> final_state.defender.budget,
        defender_spent |-> final_state.defender.total_spent]

\* -------------------------------------------------------- agents/context.py
\* The operating system's entropy, which seeds a generator created without
\* a seed; two runs never get the same.
OsEntropy(id) == 0 - id

\* Variant: the generator ignores the seed it is given.
RandomUnseeded(seed, id) == OsEntropy(id)

\* rng = random.Random(seed) in GameContext.from_game_state: the stream the
\* generator of run `id` produces.
Random(seed, id) == IF seed = NoSeed THEN OsEntropy(id) ELSE seed

\* ------------------------------------------------------------------ inputs
Seeds == {1, 42}
Budgets == {20, 45}
PathNodes == {"fw-ext", "web-1", "router-1", "db-1"}
\* Pairs of the deployment sequence: a honeypot and a honeytoken on an
\* entry point, a decoy credential on the database, one pair naming a node
\* the topology does not have, one with an unknown asset type.
DeployPairs ==
    {<<"honeypot", "web-1">>, <<"honeytoken", "web-1">>,
     <<"decoy_credential", "db-1">>,
     <<"honeytoken", "ghost">>, <<"bogus", "db-1">>}
\* Outputs of random(): below every success rate, between the rates of
\* T1133 and T1190, above every uncapped detection threshold.
DrawValues == {1000, 3200, 9900}

SeqsUpTo(S, n) == UNION {[1..k -> S] : k \in 0..n}

StreamKeys == Seeds \cup (1..MaxRounds) \cup {OsEntropy(1), OsEntropy(2)}

\* ------------------------------------------------------- the PRNG streams
\* mt[k] is the prefix read so far of the output stream of Random(k); a
\* generator seeded with k again replays it. Only the caller's seed is used
\* for more than one generator of a run (one per attacker turn): a stream
\* seeded with a round number is read by that round's evaluation alone, and
\* is recorded only when it is the caller's seed as well.
Streams(n) == [1..n -> DrawValues]

Extends(s, known) ==
    \A i \in 1..Min(Len(s), Len(known)) : s[i] = known[i]

Recorded(m, key, s, used) ==
    IF key \in {Random(call.seed, run.id), Random(call.seed, twin.id)}
    THEN [m EXCEPT ![key] = IF used > Len(@) THEN SubSeq(s, 1, used) ELSE @]
    ELSE m

\* ------------------------------------------------- evaluation/benchmark.py
NoState == [none |-> TRUE]
NoTrial == [none |-> TRUE]

NewRun(id) ==
    [id |-> id, pc |-> "call", round_num |-> 0, state |-> NoState,
     error |-> "", trial |-> NoTrial]

\* run_game_sync up to and including create_initial_state.
StartStep(r) ==
    IF call.attacker_path = << >> /\ entry_points(call.topology) = << >>
    THEN [r EXCEPT !.pc = "raised", !.error = "IndexError"]
    ELSE LET entry_point == IF call.attacker_path # << >>
                            THEN call.attacker_path[1]
                            ELSE entry_points(call.topology)[1]
         IN IF CreateInitialStateRaises(call.topology, entry_point)
            THEN [r EXCEPT !.pc = "raised", !.error = "ValueError"]
            ELSE [r EXCEPT !.pc = "defender_setup",
                           !.state = create_initial_state(call.topology,
                               call.budget, call.max_rounds, entry_point)]

\* update = defender_node(state); then the entry of the round loop.
SetupStep(r) ==
    IF StubDefenderRaises(call.defender_actions)
    THEN [r EXCEPT !.pc = "raised", !.error = "KeyError"]
    ELSE [r EXCEPT !.state = stub_defender(r.state, call.defender_actions),
                   !.round_num = IF call.max_rounds >= 1 THEN 1 ELSE 0,
                   !.pc = IF call.max_rounds >= 1 THEN "attacker_turn"
                          ELSE "returned"]

\* update = attacker_node(state)
AttackerStep(r, s) ==
    LET res == stub_attacker(r.state, call.attacker_path, s)
    IN [run |-> [r EXCEPT !.state = res.state, !.pc = "evaluate_round"],
        draws |-> res.draws]

\* Variant: the round loop has no break on game_over.
EvaluateStepNoBreak(r, s) ==
    LET res == evaluate_round(r.state, s)
        leave == r.round_num >= call.max_rounds
    IN [run |-> [r EXCEPT !.state = res.state,
                          !.round_num = IF leave THEN @ ELSE @ + 1,
                          !.pc = IF leave THEN "returned" ELSE "attacker_turn"],
        draws |-> res.draws]

\* update = evaluate_round(state); break on game_over; next iteration.
EvaluateStep(r, s) ==
    LET res == evaluate_round(r.state, s)
        leave == res.state.game_over \/ r.round_num >= call.max_rounds
    IN [run |-> [r EXCEPT !.state = res.state,
                          !.round_num = IF leave THEN @ ELSE @ + 1,
                          !.pc = IF leave THEN "returned" ELSE "attacker_turn"],
        draws |-> res.draws]

\* trial = extract_trial_result(final_state, ...) in run_benchmark
ExtractStep(r) ==
    [r EXCEPT !.trial = extract_trial_result(r.state), !.pc = "extracted"]

\* The number of rng.random() calls evaluate_round can make on a state.
MaxDraws(state) ==
    Cardinality({p \in (1..Len(state.actions_log))
                        \X (1..Len(state.defender.deployed_assets)) :
        state.defender.deployed_assets[p[2]].node_id
            = state.actions_log[p[1]].node_id})

\* s followed by low outputs up to length n.
Padded(s, n) == s \o [i \in 1..(n - Len(s)) |-> 1000]

\* The output streams evaluate_round can read on a state, each exactly as
\* long as the number of rng.random() calls made on it, for a generator
\* whose first outputs are `known`; s is the part read so far.
RECURSIVE DrawnStreams(_, _, _)
DrawnStreams(state, known, s) ==
    IF evaluate_round(state, Padded(s, MaxDraws(state))).draws <= Len(s)
    THEN {s}
    ELSE UNION {DrawnStreams(state, known, Append(s, v)) :
                    v \in {w \in DrawValues :
                            Len(s) < Len(known) => w = known[Len(s) + 1]}}

AttackerKey(r) == Random(call.seed, r.id)

NoCtx == [none |-> TRUE]
NoBench == [none |-> TRUE]

\* The arguments of a call. On the topology without entry points the call
\* raises before it reads anything but the path.
CallInputs ==
    [topology : {TopoEnterprise}, budget : Budgets, max_rounds : 0..MaxRounds,
     seed : Seeds, defender_actions : SeqsUpTo(DeployPairs, MaxDeploy),
     attacker_path : SeqsUpTo(PathNodes, MaxPathLen), entry_point : {None}]
    \cup
    [topology : {TopoNoEntry}, budget : Budgets, max_rounds : 0..MaxRounds,
     seed : Seeds, defender_actions : {<< >>},
     attacker_path : SeqsUpTo({"n1"}, 1), entry_point : {None}]

Init ==
    /\ call \in CallInputs
    /\ run = NewRun(1)
    /\ twin = NewRun(2)
    /\ mt = [k \in StreamKeys |-> << >>]
    /\ ctx = NoCtx
    /\ bench = NoBench

RunGameSync ==
    /\ run.pc = "call"
    /\ run' = StartStep(run)
    /\ UNCHANGED <<call, twin, mt, ctx, bench>>

DefenderSetup ==
    /\ run.pc = "defender_setup"
    /\ run' = SetupStep(run)
    /\ UNCHANGED <<call, twin, mt, ctx, bench>>

AttackerTurn ==
    /\ run.pc = "attacker_turn"
    /\ \E s \in Streams(1) :
        /\ Extends(s, mt[AttackerKey(run)])
        /\ LET res == AttackerStep(run, s)
           IN /\ run' = res.run
              /\ mt' = Recorded(mt, AttackerKey(run), s, res.draws)
    /\ UNCHANGED <<call, twin, ctx, bench>>

EvaluateRound ==
    /\ run.pc = "evaluate_round"
    /\ \E s \in DrawnStreams(run.state, mt[run.state.current_round], << >>) :
        LET res == EvaluateStep(run, s)
        IN /\ run' = res.run
           /\ mt' = Recorded(mt, run.state.current_round, s, res.draws)
    /\ UNCHANGED <<call, twin, ctx, bench>>

ExtractTrial ==
    /\ run.pc = "returned"
    /\ run' = ExtractStep(run)
    /\ UNCHANGED <<call, twin, mt, ctx, bench>>

Next ==
    \/ RunGameSync
    \/ DefenderSetup
    \/ AttackerTurn
    \/ EvaluateRound
    \/ ExtractTrial

Spec == Init /\ [][Next]_vars

\* ----------------------------------------- two runs of one call, in step
\* A second run of run_game_sync on the same arguments, taking each step
\* together with the first: its generators are seeded as the code seeds
\* them, and two generators with the same seed read the same stream.
TwinCall ==
    /\ run.pc = "call" /\ twin.pc = "call"
    /\ run' = StartStep(run)
    /\ twin' = StartStep(twin)
    /\ UNCHANGED <<call, mt, ctx, bench>>

TwinDefenderSetup ==
    /\ run.pc = "defender_setup" /\ twin.pc = "defender_setup"
    /\ run' = SetupStep(run)
    /\ twin' = SetupStep(twin)
    /\ UNCHANGED <<call, mt, ctx, bench>>

\* The streams of length n a generator seeded with k2 can produce, when a
\* generator seeded with k1 has just produced s1.
TwinStreams(k1, s1, k2, n) ==
    IF k1 = k2 /\ n <= Len(s1) THEN {SubSeq(s1, 1, n)}
    ELSE {s \in Streams(n) : Extends(s, mt[k2]) /\ (k1 = k2 => Extends(s, s1))}

TwinAttackerTurn ==
    /\ run.pc = "attacker_turn" /\ twin.pc = "attacker_turn"
    /\ \E s1 \in Streams(1) :
        /\ Extends(s1, mt[AttackerKey(run)])
        /\ \E s2 \in TwinStreams(AttackerKey(run), s1, AttackerKey(twin), 1) :
            LET res1 == AttackerStep(run, s1)
                res2 == AttackerStep(twin, s2)
            IN /\ run' = res1.run
               /\ twin' = res2.run
               /\ mt' = Recorded(Recorded(mt, AttackerKey(run), s1, res1.draws),
                                 AttackerKey(twin), s2, res2.draws)
    /\ UNCHANGED <<call, ctx, bench>>

\* What is known of the stream of a generator seeded with k2 once a
\* generator seeded with k1 has produced s1.
KnownAfter(k1, s1, k2) ==
    IF k1 = k2 /\ Len(s1) > Len(mt[k2]) THEN s1 ELSE mt[k2]

TwinEvaluateRound ==
    /\ run.pc = "evaluate_round" /\ twin.pc = "evaluate_round"
    /\ \E s1 \in DrawnStreams(run.state, mt[run.state.current_round], << >>) :
       \E s2 \in DrawnStreams(twin.state,
                              KnownAfter(run.state.current_round, s1,
                                         twin.state.current_round), << >>) :
        LET res1 == EvaluateStep(run, s1)
            res2 == EvaluateStep(twin, s2)
        IN /\ run' = res1.run
           /\ twin' = res2.run
           /\ mt' = Recorded(Recorded(mt, run.state.current_round, s1,
                                      res1.draws),
                             twin.state.current_round, s2, res2.draws)
    /\ UNCHANGED <<call, ctx, bench>>

TwinExtract ==
    /\ run.pc = "returned" /\ twin.pc = "returned"
    /\ run' = ExtractStep(run)
    /\ twin' = ExtractStep(twin)
    /\ UNCHANGED <<call, mt, ctx, bench>>

NextTwin ==
    \/ TwinCall
    \/ TwinDefenderSetup
    \/ TwinAttackerTurn
    \/ TwinEvaluateRound
    \/ TwinExtract

SpecTwin == Init /\ [][NextTwin]_vars

\* ------------------------------------- the graph of build_game_graph
\* should_continue: the route taken after evaluate_round.
should_continue(state) == IF state.game_over THEN "end" ELSE "continue"

\* The node defender_setup and the edge to attacker_turn.
GraphSetupStep(r) ==
    IF StubDefenderRaises(call.defender_actions)
    THEN [r EXCEPT !.pc = "raised", !.error = "KeyError"]
    ELSE [r EXCEPT !.state = stub_defender(r.state, call.defender_actions),
                   !.pc = "attacker_turn"]

\* The node evaluate_round and the conditional edges that leave it.
GraphEvaluateStep(r, s) ==
    LET res == evaluate_round(r.state, s)
    IN [run |-> [r EXCEPT !.state = res.state,
                          !.pc = IF should_continue(res.state) = "end"
                                 THEN "end" ELSE "attacker_turn"],
        draws |-> res.draws]

\* run is run_game_sync, twin the compiled graph invoked on the initial
\* state of the same arguments with the same stub nodes. The two take
\* their steps together while both have one to take; generators with the
\* same seed read the same stream.
GraphCall ==
    /\ run.pc = "call" /\ twin.pc = "call"
    /\ run' = StartStep(run)
    /\ twin' = StartStep(twin)
    /\ UNCHANGED <<call, mt, ctx, bench>>

GraphDefenderSetup ==
    /\ run.pc = "defender_setup" /\ twin.pc = "defender_setup"
    /\ run' = SetupStep(run)
    /\ twin' = GraphSetupStep(twin)
    /\ UNCHANGED <<call, mt, ctx, bench>>

GraphAttackerTurn ==
    /\ run.pc = "attacker_turn" /\ twin.pc = "attacker_turn"
    /\ \E s1 \in Streams(1) :
        /\ Extends(s1, mt[AttackerKey(run)])
        /\ \E s2 \in TwinStreams(AttackerKey(run), s1, AttackerKey(twin), 1) :
            LET res1 == AttackerStep(run, s1)
                res2 == AttackerStep(twin, s2)
            IN /\ run' = res1.run
               /\ twin' = res2.run
               /\ mt' = Recorded(Recorded(mt, AttackerKey(run), s1, res1.draws),
                                 AttackerKey(twin), s2, res2.draws)
    /\ UNCHANGED <<call, ctx, bench>>

GraphEvaluateRound ==
    /\ run.pc = "evaluate_round" /\ twin.pc = "evaluate_round"
    /\ \E s1 \in DrawnStreams(run.state, mt[run.state.current_round], << >>) :
       \E s2 \in DrawnStreams(twin.state,
                              KnownAfter(run.state.current_round, s1,
                                         twin.state.current_round), << >>) :
        LET res1 == EvaluateStep(run, s1)
            res2 == GraphEvaluateStep(twin, s2)
        IN /\ run' = res1.run
           /\ twin' = res2.run
           /\ mt' = Recorded(Recorded(mt, run.state.current_round, s1,
                                      res1.draws),
                             twin.state.current_round, s2, res2.draws)
    /\ UNCHANGED <<call, ctx, bench>>

\* The graph goes on after run_game_sync has returned.
GraphAttackerTurnAlone ==
    /\ run.pc = "returned" /\ twin.pc = "attacker_turn"
    /\ \E s \in Streams(1) :
        /\ Extends(s, mt[AttackerKey(twin)])
        /\ LET res == AttackerStep(twin, s)
           IN /\ twin' = res.run
              /\ mt' = Recorded(mt, AttackerKey(twin), s, res.draws)
    /\ UNCHANGED <<call, run, ctx, bench>>

GraphEvaluateRoundAlone ==
    /\ run.pc = "returned" /\ twin.pc = "evaluate_round"
    /\ \E s \in DrawnStreams(twin.state, mt[twin.state.current_round], << >>) :
        LET res == GraphEvaluateStep(twin, s)
        IN /\ twin' = res.run
           /\ mt' = Recorded(mt, twin.state.current_round, s, res.draws)
    /\ UNCHANGED <<call, run, ctx, bench>>

NextGraph ==
    \/ GraphCall
    \/ GraphDefenderSetup
    \/ GraphAttackerTurn
    \/ GraphEvaluateRound
    \/ GraphAttackerTurnAlone
    \/ GraphEvaluateRoundAlone

SpecGraph == Init /\ [][NextGraph]_vars

\* ------------------------------------------- create_initial_state, alone
EntryPointArgs == {None, "fw-ext", "web-1", "db-1", "n1", "ghost"}

InitCreate ==
    /\ call \in [topology : Topologies, budget : Budgets \cup {0},
                 max_rounds : 0..MaxRounds, seed : Seeds \cup {NoSeed},
                 defender_actions : {<< >>}, attacker_path : {<< >>},
                 entry_point : EntryPointArgs]
    /\ run = NewRun(1)
    /\ twin = NewRun(2)
    /\ mt = [k \in StreamKeys |-> << >>]
    /\ ctx = NoCtx
    /\ bench = NoBench

CreateInitialState ==
    /\ run.pc = "call"
    /\ run' = IF CreateInitialStateRaises(call.topology, call.entry_point)
              THEN [run EXCEPT !.pc = "raised", !.error = "ValueError"]
              ELSE [run EXCEPT !.pc = "created",
                               !.state = create_initial_state(call.topology,
                                   call.budget, call.max_rounds,
                                   call.entry_point)]
    /\ UNCHANGED <<call, twin, mt, ctx, bench>>

NextCreate == CreateInitialState

SpecCreate == InitCreate /\ [][NextCreate]_vars

\* --------------------------------------- agents/tools/defender_tools.py
ToolNodes == {"web-1", "db-1", "ghost"}
ToolBudgets == {0, 10, 20, 45, 60}

\* The body shared by the three deployment tools, on the asset they build.
DeployTool(c, tool, node_id, asset) ==
    LET called == [c EXCEPT !.calls = @ + 1, !.tool = tool,
                            !.node_id = node_id]
    IN IF node_id \notin NodeSet(c.topology)
       THEN [called EXCEPT !.result = "Error"]
       ELSE LET res == deploy(c.defender, asset)
            IN IF ~res.ok
               THEN [called EXCEPT !.result = "Failed"]
               ELSE [called EXCEPT !.defender = res.defender,
                                   !.result = "deployed"]

deploy_honeypot(c, node_id) ==
    DeployTool(c, "honeypot", node_id, honeypot(node_id))

deploy_decoy_credential(c, node_id) ==
    DeployTool(c, "decoy_credential", node_id, decoy_credential(node_id))

deploy_honeytoken(c, node_id) ==
    DeployTool(c, "honeytoken", node_id, honeytoken(node_id))

InitTools ==
    /\ call \in [topology : {TopoEnterprise}, budget : ToolBudgets,
                 max_rounds : {1}, seed : {NoSeed},
                 defender_actions : {<< >>}, attacker_path : {<< >>},
                 entry_point : {None}]
    /\ run = NewRun(1)
    /\ twin = NewRun(2)
    /\ mt = [k \in StreamKeys |-> << >>]
    /\ ctx = [topology |-> call.topology,
              defender |-> DefenderState(call.budget),
              calls |-> 0, tool |-> "", node_id |-> "", result |-> ""]
    /\ bench = NoBench

DeployHoneypot ==
    /\ ctx.calls < MaxToolCalls
    /\ \E node_id \in ToolNodes : ctx' = deploy_honeypot(ctx, node_id)
    /\ UNCHANGED <<call, run, twin, mt, bench>>

DeployDecoyCredential ==
    /\ ctx.calls < MaxToolCalls
    /\ \E node_id \in ToolNodes : ctx' = deploy_decoy_credential(ctx, node_id)
    /\ UNCHANGED <<call, run, twin, mt, bench>>

DeployHoneytoken ==
    /\ ctx.calls < MaxToolCalls
    /\ \E node_id \in ToolNodes : ctx' = deploy_honeytoken(ctx, node_id)
    /\ UNCHANGED <<call, run, twin, mt, bench>>

NextTools ==
    \/ DeployHoneypot
    \/ DeployDecoyCredential
    \/ DeployHoneytoken

SpecTools == InitTools /\ [][NextTools]_vars

\* --------------------------------------- agents/tools/attacker_tools.py
\* TECHNIQUE_BY_ID.get(technique_id) is not None
KnownTechnique(technique_id) ==
    \E i \in 1..Len(TECHNIQUE_CATALOG) : TECHNIQUE_CATALOG[i].id = technique_id

\* TECHNIQUE_BY_ID[technique_id], for an id of the catalog.
TECHNIQUE_BY_ID(technique_id) ==
    TECHNIQUE_CATALOG[CHOOSE i \in 1..Len(TECHNIQUE_CATALOG) :
                          TECHNIQUE_CATALOG[i].id = technique_id]

\* The bookkeeping of a tool call: which tool, on which arguments.
Called(c, tool, technique_id, node_id) ==
    [c EXCEPT !.calls = @ + 1, !.tool = tool,
              !.technique_id = technique_id, !.node_id = node_id]

\* execute_technique once validation has passed: the action is recorded,
\* then the roll decides.
ExecuteRoll(c, tech, target_node, roll) ==
    LET logged == [c EXCEPT !.actions_this_round = Append(@,
                       Action("execute", target_node, tech.id, tech.noise))]
        fresh == target_node \notin SeqToSet(c.attacker.compromised_nodes)
    IN IF roll > tech.base_success_rate * 100
       THEN [logged EXCEPT !.result = "failed against"]
       ELSE [logged EXCEPT
                !.attacker.access_levels =
                    IF AccessRank(tech.grants_access) >
                           AccessRank(AccessGet(@, target_node))
                    THEN AccessSet(@, target_node, tech.grants_access)
                    ELSE @,
                !.attacker.compromised_nodes =
                    IF fresh THEN Append(@, target_node) ELSE @,
                !.topology = IF fresh THEN set_compromised(@, target_node) ELSE @,
                !.result = "succeeded"]

\* Variant: the action is recorded before the applicability of the
\* technique is validated.
execute_techniqueLogsBeforeValidation(c, technique_id, target_node, roll) ==
    LET called == Called(c, "execute_technique", technique_id, target_node)
        tech == TECHNIQUE_BY_ID(technique_id)
    IN IF target_node \notin NodeSet(c.topology)
       THEN [called EXCEPT !.result = "Error"]
       ELSE IF ~KnownTechnique(technique_id) THEN [called EXCEPT !.result = "Error"]
       ELSE IF AccessRank(AccessGet(c.attacker.access_levels, target_node))
                   < AccessRank(tech.required_access)
       THEN [called EXCEPT !.result = "Failed"]
       ELSE IF ~applicable_to(tech, get_attrs(c.topology, target_node))
       THEN [called EXCEPT !.result = "Failed",
                           !.actions_this_round = Append(@,
                               Action("execute", target_node, tech.id, tech.noise))]
       ELSE ExecuteRoll(called, tech, target_node, roll)

execute_technique(c, technique_id, target_node, roll) ==
    LET called == Called(c, "execute_technique", technique_id, target_node)
        tech == TECHNIQUE_BY_ID(technique_id)
    IN IF target_node \notin NodeSet(c.topology)
       THEN [called EXCEPT !.result = "Error"]
       ELSE IF ~KnownTechnique(technique_id) THEN [called EXCEPT !.result = "Error"]
       ELSE IF AccessRank(AccessGet(c.attacker.access_levels, target_node))
                   < AccessRank(tech.required_access)
       THEN [called EXCEPT !.result = "Failed"]
       ELSE IF ~applicable_to(tech, get_attrs(c.topology, target_node))
       THEN [called EXCEPT !.result = "Failed"]
       ELSE ExecuteRoll(called, tech, target_node, roll)

move_lateral(c, target_node) ==
    LET called == Called(c, "move_lateral", None, target_node)
    IN IF target_node \notin neighbors(c.topology, c.attacker.position)
       THEN [called EXCEPT !.result = "Failed"]
       ELSE IF AccessGet(c.attacker.access_levels, target_node) = "none"
       THEN [called EXCEPT !.result = "Failed"]
       ELSE [called EXCEPT
                !.attacker.position = target_node,
                !.attacker.path = Append(@, target_node),
                !.actions_this_round = Append(@,
                    Action("move", target_node, "lateral_movement", NoNoise)),
                !.result = "Moved"]

exfiltrate(c, node_id) ==
    LET called == Called(c, "exfiltrate", None, node_id)
    IN IF node_id \notin NodeSet(c.topology)
       THEN [called EXCEPT !.result = "Error"]
       ELSE IF AccessGet(c.attacker.access_levels, node_id) = "none"
       THEN [called EXCEPT !.result = "Failed"]
       ELSE [called EXCEPT
                !.attacker.exfiltrated_value =
                    @ + get_attrs(c.topology, node_id).value,
                !.actions_this_round = Append(@,
                    Action("exfiltrate", node_id, "T1041", 45)),
                !.result = "Exfiltrated"]

\* Arguments of the tool calls: nodes of the topology and one that is not,
\* techniques needing no, user and root access, one for another operating
\* system, and an id the catalog does not have.
AttackNodes == {"web-1", "router-1", "db-1", "ghost"}
AttackTechniques == {"T1190", "T1133", "T1078", "T1003", "T1059.001", "T9999"}

InitAttack ==
    /\ call \in [topology : {TopoEnterprise}, budget : {20},
                 max_rounds : {1}, seed : Seeds,
                 defender_actions : {<< >>}, attacker_path : {<< >>},
                 entry_point : {"fw-ext", "web-1"}]
    /\ run = NewRun(1)
    /\ twin = NewRun(2)
    /\ mt = [k \in StreamKeys |-> << >>]
    /\ ctx = LET state == create_initial_state(call.topology, call.budget,
                              call.max_rounds, call.entry_point)
             IN [topology |-> state.topology, attacker |-> state.attacker,
                 actions_this_round |-> << >>,
                 calls |-> 0, tool |-> "", technique_id |-> None,
                 node_id |-> "", result |-> ""]
    /\ bench = NoBench

ExecuteTechnique ==
    /\ ctx.calls < MaxToolCalls
    /\ \E technique_id \in AttackTechniques, target_node \in AttackNodes,
          roll \in DrawValues :
          ctx' = execute_technique(ctx, technique_id, target_node, roll)
    /\ UNCHANGED <<call, run, twin, mt, bench>>

MoveLateral ==
    /\ ctx.calls < MaxToolCalls
    /\ \E target_node \in AttackNodes : ctx' = move_lateral(ctx, target_node)
    /\ UNCHANGED <<call, run, twin, mt, bench>>

Exfiltrate ==
    /\ ctx.calls < MaxToolCalls
    /\ \E node_id \in AttackNodes : ctx' = exfiltrate(ctx, node_id)
    /\ UNCHANGED <<call, run, twin, mt, bench>>

NextAttack ==
    \/ ExecuteTechnique
    \/ MoveLateral
    \/ Exfiltrate

SpecAttack == InitAttack /\ [][NextAttack]_vars

\* ------------------------------------- run_game_sync on longer paths
\* The calls of run_game_sync with no deployment and an attacker path of
\* up to MaxWalkLen nodes: the stub attacker alone decides the run.
WalkInputs ==
    [topology : {TopoEnterprise}, budget : {20}, max_rounds : 1..MaxRounds,
     seed : Seeds, defender_actions : {<< >>},
     attacker_path : SeqsUpTo(PathNodes, MaxWalkLen), entry_point : {None}]

InitWalk ==
    /\ call \in WalkInputs
    /\ run = NewRun(1)
    /\ twin = NewRun(2)
    /\ mt = [k \in StreamKeys |-> << >>]
    /\ ctx = NoCtx
    /\ bench = NoBench

SpecWalk == InitWalk /\ [][Next]_vars

\* --------------------------------------- evaluation/benchmark.py: the sweep
\* The keys of TOPOLOGIES.
TOPOLOGIES == {"small", "medium", "large"}

\* BenchmarkConfig values: topology names known and unknown, strategy
\* names, and whether a progress callback is passed.
BenchmarkConfigs ==
    [topologies : SeqsUpTo({"small", "huge"}, MaxNames),
     strategies : SeqsUpTo({"uniform", "static"}, MaxNames),
     num_trials : 0..MaxTrials, base_seed : {42},
     progress_callback : BOOLEAN]

\* A TrialResult of the sweep, by what identifies it (the outcome of the
\* game it records is that of run_game_sync).
TrialOf(config, ti, si, i) ==
    [strategy |-> config.strategies[si], topology |-> config.topologies[ti],
     seed |-> config.base_seed + i]

InitBench ==
    /\ call \in [topology : {TopoEnterprise}, budget : {20}, max_rounds : {1},
                 seed : {NoSeed}, defender_actions : {<< >>},
                 attacker_path : {<< >>}, entry_point : {None}]
    /\ run = NewRun(1)
    /\ twin = NewRun(2)
    /\ mt = [k \in StreamKeys |-> << >>]
    /\ ctx = NoCtx
    /\ bench \in [config : BenchmarkConfigs, pc : {"call"}, total_runs : {0},
                  current : {0}, all_trials : {<< >>}, calls : {<< >>},
                  ti : {1}, si : {1}, i : {0}, trial_results : {<< >>}]

\* total_runs = len(topologies) * len(strategies) * num_trials; current = 0
RunBenchmark ==
    /\ bench.pc = "call"
    /\ bench' = [bench EXCEPT
            !.total_runs = Len(bench.config.topologies)
                              * Len(bench.config.strategies)
                              * bench.config.num_trials,
            !.pc = "topologies"]
    /\ UNCHANGED <<call, run, twin, mt, ctx>>

\* factory is None: continue
SkipTopology ==
    /\ bench.pc = "topologies"
    /\ bench.ti <= Len(bench.config.topologies)
    /\ bench.config.topologies[bench.ti] \notin TOPOLOGIES
    /\ bench' = [bench EXCEPT !.ti = @ + 1]
    /\ UNCHANGED <<call, run, twin, mt, ctx>>

\* topology = factory(), the shared path and the defender actions.
EnterTopology ==
    /\ bench.pc = "topologies"
    /\ bench.ti <= Len(bench.config.topologies)
    /\ bench.config.topologies[bench.ti] \in TOPOLOGIES
    /\ bench' = [bench EXCEPT !.pc = "trials", !.si = 1, !.i = 0]
    /\ UNCHANGED <<call, run, twin, mt, ctx>>

\* One pass of `for i in range(config.num_trials)`: the game, its trial
\* record, current += 1 and the progress callback.
RunTrial ==
    /\ bench.pc = "trials"
    /\ bench.si <= Len(bench.config.strategies)
    /\ bench.i < bench.config.num_trials
    /\ bench' = [bench EXCEPT
            !.all_trials = Append(@, TrialOf(bench.config, bench.ti,
                                             bench.si, bench.i)),
            !.current = @ + 1,
            !.calls = IF bench.config.progress_callback
                      THEN Append(@, [description |->
                                <<bench.config.topologies[bench.ti],
                                  bench.config.strategies[bench.si]>>,
                              current |-> bench.current + 1,
                              total |-> bench.total_runs])
                      ELSE @,
            !.i = @ + 1]
    /\ UNCHANGED <<call, run, twin, mt, ctx>>

\* The trials of one strategy are done: the next strategy.
NextStrategy ==
    /\ bench.pc = "trials"
    /\ bench.si <= Len(bench.config.strategies)
    /\ bench.i >= bench.config.num_trials
    /\ bench' = [bench EXCEPT !.si = @ + 1, !.i = 0]
    /\ UNCHANGED <<call, run, twin, mt, ctx>>

\* The strategies of one topology are done: the next topology.
LeaveTopology ==
    /\ bench.pc = "trials"
    /\ bench.si > Len(bench.config.strategies)
    /\ bench' = [bench EXCEPT !.pc = "topologies", !.ti = @ + 1]
    /\ UNCHANGED <<call, run, twin, mt, ctx>>

\* return BenchmarkResult(..., trial_results=all_trials)
ReturnBenchmark ==
    /\ bench.pc = "topologies"
    /\ bench.ti > Len(bench.config.topologies)
    /\ bench' = [bench EXCEPT !.pc = "returned", !.trial_results = bench.all_trials]
    /\ UNCHANGED <<call, run, twin, mt, ctx>>

NextBench ==
    \/ RunBenchmark
    \/ SkipTopology
    \/ EnterTopology
    \/ RunTrial
    \/ NextStrategy
    \/ LeaveTopology
    \/ ReturnBenchmark

SpecBench == InitBench /\ [][NextBench]_vars

\* ------------------------------------------------- evaluation/baselines.py
\* Units of the solver and the baselines: money in 1e-8, so that the
\* tolerance 1e-8 of the cost comparisons is 1; a coverage probability in
\* halves; the detection probability of an asset in percent, so p(t) is in
\* 1/200; an expected utility in 1/200 of the unit of a node value, with
\* the tolerance 1e-8 of the best response equal to 1000 of these.
CostTol == 1
Tol == 1000
NegInf == -1000000000

\* list(DeceptionType), which is the order of _ASSET_PREFERENCE as well.
DeceptionType == <<"honeypot", "decoy_credential", "honeytoken">>

ASSET_COSTS(atype) ==
    CASE atype = "honeypot" -> 300000000
      [] atype = "decoy_credential" -> 150000000
      [] atype = "honeytoken" -> 100000000

ASSET_DETECTION_PROBS(atype) ==
    CASE atype = "honeypot" -> 85
      [] atype = "decoy_credential" -> 70
      [] atype = "honeytoken" -> 50

UtilityParams(alpha, beta) == [alpha |-> alpha, beta |-> beta]

Abs(x) == IF x < 0 THEN 0 - x ELSE x

\* coverage[nid] = {}: no asset kind has a probability.
NoCoverage == [atype \in SeqToSet(DeceptionType) |-> 0]

\* coverage[nid] = {atype: prob}
OneAsset(atype, prob) ==
    [a \in SeqToSet(DeceptionType) |-> IF a = atype THEN prob ELSE 0]

\* p = sum of prob * ASSET_DETECTION_PROBS[atype] over the node's assets.
DetectionProbability(node_coverage) ==
    node_coverage["honeypot"] * ASSET_DETECTION_PROBS("honeypot")
    + node_coverage["decoy_credential"] * ASSET_DETECTION_PROBS("decoy_credential")
    + node_coverage["honeytoken"] * ASSET_DETECTION_PROBS("honeytoken")

\* a_eu = p * (-beta * v) + (1 - p) * v
AttackerEU(v, p, params) == p * (0 - params.beta * v) + (200 - p) * v

\* d_eu = p * (alpha * v) + (1 - p) * (-v)
DefenderEU(v, p, params) == p * (params.alpha * v) + (200 - p) * (0 - v)

\* One pass of the loop of _attacker_best_response over node nid.
BestResponseStep(best, nid, a_eu, d_eu) ==
    IF a_eu > best.attacker_eu + Tol
    THEN [target |-> nid, attacker_eu |-> a_eu, defender_eu |-> d_eu]
    ELSE IF Abs(a_eu - best.attacker_eu) < Tol /\ d_eu > best.defender_eu
    THEN [best EXCEPT !.target = nid, !.defender_eu = d_eu]
    ELSE best

\* for nid in topology.nodes: ..., from node index i on.
RECURSIVE BestResponseLoop(_, _, _, _, _)
BestResponseLoop(topology, detection_probs, params, i, best) ==
    IF i > Len(topology.nodes) THEN best
    ELSE BestResponseLoop(topology, detection_probs, params, i + 1,
            BestResponseStep(best, topology.nodes[i],
                AttackerEU(get_attrs(topology, topology.nodes[i]).value,
                           detection_probs[topology.nodes[i]], params),
                DefenderEU(get_attrs(topology, topology.nodes[i]).value,
                           detection_probs[topology.nodes[i]], params)))

_attacker_best_response(topology, detection_probs, params) ==
    BestResponseLoop(topology, detection_probs, params, 1,
        [target |-> "", attacker_eu |-> NegInf, defender_eu |-> NegInf])

StackelbergSolution(coverage, target, defender_eu, attacker_eu, detection_probs) ==
    [coverage |-> coverage, attacker_target |-> target,
     defender_expected_utility |-> defender_eu,
     attacker_expected_utility |-> attacker_eu,
     detection_probabilities |-> detection_probs]

_build_solution(topology, coverage, params) ==
    LET detection_probs ==
            [nid \in NodeSet(topology) |-> DetectionProbability(coverage[nid])]
        br == _attacker_best_response(topology, detection_probs, params)
    IN StackelbergSolution(coverage, br.target, br.defender_eu, br.attacker_eu,
                           detection_probs)

\* min(per_node / ht_cost, 1.0) with per_node = budget / n, in halves (the
\* budgets of a call are those for which the quotient is a whole number of
\* halves).
UniformCoverageProb(n, budget) ==
    IF n = 0 THEN 0
    ELSE Min((2 * (budget \div n)) \div ASSET_COSTS("honeytoken"), 2)

uniform_baseline(topology, budget, params) ==
    _build_solution(topology,
        [nid \in NodeSet(topology) |->
            IF UniformCoverageProb(Len(topology.nodes), budget) > 0
            THEN OneAsset("honeytoken",
                          UniformCoverageProb(Len(topology.nodes), budget))
            ELSE NoCoverage],
        params)

\* sorted(nodes, key=..., reverse=True): descending and stable, so of the
\* nodes with the largest key the first of the list comes first.
RECURSIVE SortedReverse(_, _)
SortedReverse(nodes, key) ==
    IF nodes = << >> THEN << >>
    ELSE LET i == CHOOSE k \in 1..Len(nodes) :
                    /\ \A j \in 1..Len(nodes) : key[nodes[j]] <= key[nodes[k]]
                    /\ \A j \in 1..(k - 1) : key[nodes[j]] < key[nodes[k]]
         IN <<nodes[i]>> \o SortedReverse(
                SubSeq(nodes, 1, i - 1) \o SubSeq(nodes, i + 1, Len(nodes)), key)

\* Variant: the cheapest asset kind that fits is taken.
RECURSIVE GreedyPickCheapest(_, _)
GreedyPickCheapest(remaining, k) ==
    IF k > Len(DeceptionType) THEN None
    ELSE IF GreedyPickCheapest(remaining, k + 1) # None
    THEN GreedyPickCheapest(remaining, k + 1)
    ELSE IF ASSET_COSTS(DeceptionType[k]) <= remaining + CostTol
    THEN DeceptionType[k]
    ELSE None

\* for atype in _ASSET_PREFERENCE: if cost <= remaining + 1e-8, from the
\* k-th kind on.
RECURSIVE GreedyPick(_, _)
GreedyPick(remaining, k) ==
    IF k > Len(DeceptionType) THEN None
    ELSE IF ASSET_COSTS(DeceptionType[k]) <= remaining + CostTol
    THEN DeceptionType[k]
    ELSE GreedyPick(remaining, k + 1)

\* for nid in ranking: ... of _greedy_allocate, from rank i on.
RECURSIVE GreedyLoop(_, _, _, _)
GreedyLoop(coverage, remaining, ranking, i) ==
    IF i > Len(ranking) THEN coverage
    ELSE IF remaining < ASSET_COSTS("honeytoken") THEN coverage
    ELSE IF GreedyPick(remaining, 1) = None
    THEN GreedyLoop(coverage, remaining, ranking, i + 1)
    ELSE GreedyLoop(
            [coverage EXCEPT ![ranking[i]] = OneAsset(GreedyPick(remaining, 1), 2)],
            remaining - ASSET_COSTS(GreedyPick(remaining, 1)), ranking, i + 1)

_greedy_allocate(topology, budget, ranking) ==
    GreedyLoop([nid \in NodeSet(topology) |-> NoCoverage], budget, ranking, 1)

\* The ranking of static_baseline: by node value.
ValueRanking(topology) ==
    SortedReverse(topology.nodes,
                  [nid \in NodeSet(topology) |-> get_attrs(topology, nid).value])

static_baseline(topology, budget, params) ==
    _build_solution(topology,
        _greedy_allocate(topology, budget, ValueRanking(topology)), params)

\* nx.degree_centrality: degree / (n - 1), which orders the nodes as their
\* degree does.
degree_centrality(topology) ==
    [nid \in NodeSet(topology) |-> Cardinality(neighbors(topology, nid))]

\* The ranking of heuristic_baseline: by degree centrality.
CentralityRanking(topology) ==
    SortedReverse(topology.nodes, degree_centrality(topology))

heuristic_baseline(topology, budget, params) ==
    _build_solution(topology,
        _greedy_allocate(topology, budget, CentralityRanking(topology)), params)

\* Topologies for the solver and the baselines. A pair of nodes; a chain
\* whose middle node is the best connected and whose end node the most
\* valuable; a triangle with two equal values and a node of value 0; a
\* chain whose values lie within the tolerance of the best response of one
\* another.
SolverNode(value, is_entry_point) ==
    NodeAttributes("server", "linux", {"ssh"}, value, is_entry_point)

TopoPair ==
    [name |-> "pair", nodes |-> <<"a", "b">>,
     attrs |-> [n \in {"a", "b"} |->
        IF n = "a" THEN SolverNode(4000, TRUE) ELSE SolverNode(9000, FALSE)],
     edges |-> {Edge("a", "b", "lan")}]

TopoChain ==
    [name |-> "chain", nodes |-> <<"a", "b", "c">>,
     attrs |-> [n \in {"a", "b", "c"} |->
        CASE n = "a" -> SolverNode(2000, TRUE)
          [] n = "b" -> SolverNode(4000, FALSE)
          [] n = "c" -> SolverNode(9000, FALSE)],
     edges |-> {Edge("a", "b", "lan"), Edge("b", "c", "lan")}]

TopoTriangle ==
    [name |-> "triangle", nodes |-> <<"a", "b", "c">>,
     attrs |-> [n \in {"a", "b", "c"} |->
        CASE n = "a" -> SolverNode(4000, TRUE)
          [] n = "b" -> SolverNode(0, FALSE)
          [] n = "c" -> SolverNode(4000, FALSE)],
     edges |-> {Edge("a", "b", "lan"), Edge("b", "c", "lan"),
                Edge("a", "c", "lan")}]

TopoNearTie ==
    [name |-> "near-tie", nodes |-> <<"a", "b", "c">>,
     attrs |-> [n \in {"a", "b", "c"} |->
        CASE n = "a" -> SolverNode(1004, TRUE)
          [] n = "b" -> SolverNode(1000, FALSE)
          [] n = "c" -> SolverNode(1008, FALSE)],
     edges |-> {Edge("a", "b", "lan"), Edge("b", "c", "lan")}]

NoSolution == [none |-> TRUE]

\* The arguments of a baseline: budgets at, just below and between the
\* costs of the asset kinds.
BaselineInputs ==
    [topology : {TopoPair, TopoChain, TopoTriangle, TopoNearTie},
     budget : {0, 99999999, 100000000, 150000000, 299999999, 300000000,
               450000000},
     params : {UtilityParams(1, 1), UtilityParams(3, 1)},
     sse : {NoSolution}, uniform : {NoSolution}, static : {NoSolution},
     heuristic : {NoSolution}]

InitBaselines ==
    /\ call \in [topology : {TopoEnterprise}, budget : {20}, max_rounds : {1},
                 seed : {NoSeed}, defender_actions : {<< >>},
                 attacker_path : {<< >>}, entry_point : {None}]
    /\ run = NewRun(1)
    /\ twin = NewRun(2)
    /\ mt = [k \in StreamKeys |-> << >>]
    /\ ctx = NoCtx
    /\ bench \in BaselineInputs

StaticBaseline ==
    /\ bench.static = NoSolution
    /\ bench' = [bench EXCEPT !.static =
                    static_baseline(bench.topology, bench.budget, bench.params)]
    /\ UNCHANGED <<call, run, twin, mt, ctx>>

HeuristicBaseline ==
    /\ bench.heuristic = NoSolution
    /\ bench' = [bench EXCEPT !.heuristic =
                    heuristic_baseline(bench.topology, bench.budget, bench.params)]
    /\ UNCHANGED <<call, run, twin, mt, ctx>>

NextBaselines ==
    \/ StaticBaseline
    \/ HeuristicBaseline

SpecBaselines == InitBaselines /\ [][NextBaselines]_vars

\* ----------------------------------------------------------- game/solver.py
\* delta_d[t] = (alpha + 1) * v(t) and delta_a[t] = -(beta + 1) * v(t)
delta_d(v, params) == params.alpha * v - (0 - v)
delta_a(v, params) == (0 - params.beta * v) - v

\* Constraint (i): the sum over a of c[t,a] is at most 1.
OnePerNode(node_coverage) ==
    node_coverage["honeypot"] + node_coverage["decoy_credential"]
        + node_coverage["honeytoken"] <= 2

\* The left side of constraint (ii) over the first k nodes, in halves of
\* the money unit.
RECURSIVE BudgetSum(_, _, _)
BudgetSum(topology, x, k) ==
    IF k = 0 THEN 0
    ELSE BudgetSum(topology, x, k - 1)
         + x[topology.nodes[k]]["honeypot"] * ASSET_COSTS("honeypot")
         + x[topology.nodes[k]]["decoy_credential"] * ASSET_COSTS("decoy_credential")
         + x[topology.nodes[k]]["honeytoken"] * ASSET_COSTS("honeytoken")

\* Constraint (ii): the expected total cost is at most the budget.
BudgetRow(topology, x, budget) ==
    BudgetSum(topology, x, Len(topology.nodes)) <= 2 * budget

\* Variant: the row of t bounds v(t) - v(t*) instead of v(t*) - v(t).
BestResponseRowReversed(topology, params, x, t, t_star) ==
    DetectionProbability(x[t]) * delta_a(get_attrs(topology, t).value, params)
    - DetectionProbability(x[t_star])
        * delta_a(get_attrs(topology, t_star).value, params)
        <= 200 * (get_attrs(topology, t).value
                  - get_attrs(topology, t_star).value)

\* Variant: the coefficients of c[t*,a] are left out of the row.
BestResponseRowNoTarget(topology, params, x, t, t_star) ==
    DetectionProbability(x[t]) * delta_a(get_attrs(topology, t).value, params)
        <= 200 * (get_attrs(topology, t_star).value
                  - get_attrs(topology, t).value)

\* Constraint (iii), the row of node t in the LP of t*:
\* sum_a c[t,a] det_a delta_a(t) - sum_a c[t*,a] det_a delta_a(t*)
\*     <= v(t*) - v(t)
BestResponseRow(topology, params, x, t, t_star) ==
    DetectionProbability(x[t]) * delta_a(get_attrs(topology, t).value, params)
    - DetectionProbability(x[t_star])
        * delta_a(get_attrs(topology, t_star).value, params)
        <= 200 * (get_attrs(topology, t_star).value
                  - get_attrs(topology, t).value)

\* A_ub @ x <= b_ub for the LP of t*.
Feasible(topology, budget, params, x, t_star) ==
    /\ \A t \in NodeSet(topology) : OnePerNode(x[t])
    /\ BudgetRow(topology, x, budget)
    /\ \A t \in NodeSet(topology) \ {t_star} :
          BestResponseRow(topology, params, x, t, t_star)

\* Variant: the objective is not negated for the minimiser.
ObjectiveNotNegated(topology, params, x, t_star) ==
    DetectionProbability(x[t_star])
        * delta_d(get_attrs(topology, t_star).value, params)

\* c_obj @ x: minus the defender's gain from detection at t*.
Objective(topology, params, x, t_star) ==
    0 - DetectionProbability(x[t_star])
            * delta_d(get_attrs(topology, t_star).value, params)

\* The vectors within bounds = [(0.0, 1.0)] * num_vars that the model
\* lets linprog consider: every c[t,a] one of 0, 1/2, 1, the per-node rows
\* of constraint (i) applied node by node.
BoundedVectors(topology) ==
    [NodeSet(topology) ->
        {c \in [SeqToSet(DeceptionType) -> 0..2] : OnePerNode(c)}]

\* linprog(c_obj, A_ub, b_ub, bounds): the feasible vectors, and of these
\* the ones of least objective; result.success is that there is one, and
\* result.x may be any of them.
LinprogFeasible(topology, budget, params, t_star) ==
    {x \in BoundedVectors(topology) :
        Feasible(topology, budget, params, x, t_star)}

Least(values) == CHOOSE m \in values : \A w \in values : m <= w

LinprogOptimal(topology, params, t_star, feasible) ==
    LET fun == Least({Objective(topology, params, x, t_star) : x \in feasible})
    IN {x \in feasible : Objective(topology, params, x, t_star) = fun}

\* defender_eu = -result.fun + Ud_u[t_star] of the LP of node index k
\* (NegInf when the LP has no solution).
CandidateEU(topology, budget, params, k) ==
    LET t_star == topology.nodes[k]
        feasible == LinprogFeasible(topology, budget, params, t_star)
    IN IF feasible = {} THEN NegInf
       ELSE (0 - Least({Objective(topology, params, x, t_star) : x \in feasible}))
            + 200 * (0 - get_attrs(topology, t_star).value)

\* The candidate the loop keeps: `if defender_eu > best_defender_eu`
\* replaces the best only by a strictly larger one, so the first of the
\* candidates of largest defender EU (0 when every LP failed).
BestCandidate(topology, budget, params) ==
    LET eu == [k \in 1..Len(topology.nodes) |->
                    CandidateEU(topology, budget, params, k)]
    IN IF \A k \in 1..Len(topology.nodes) : eu[k] = NegInf THEN 0
       ELSE CHOOSE k \in 1..Len(topology.nodes) :
                /\ eu[k] # NegInf
                /\ \A j \in 1..Len(topology.nodes) : eu[j] <= eu[k]
                /\ \A j \in 1..(k - 1) : eu[j] < eu[k]

\* The StackelbergSolution parsed from result.x of the LP of t*.
ParsedSolution(topology, params, x, t_star) ==
    LET det_probs_out == [nid \in NodeSet(topology) |->
                             DetectionProbability(x[nid])]
        value == get_attrs(topology, t_star).value
    IN StackelbergSolution(x, t_star,
          (0 - Objective(topology, params, x, t_star)) + 200 * (0 - value),
          AttackerEU(value, det_probs_out[t_star], params),
          det_probs_out)

RuntimeError == [error |-> "RuntimeError"]

\* solve_stackelberg: the solutions it can return, or the error it raises
\* when every LP is infeasible.
solve_stackelberg(topology, budget, params) ==
    LET k == BestCandidate(topology, budget, params)
    IN IF k = 0 THEN {RuntimeError}
       ELSE {ParsedSolution(topology, params, x, topology.nodes[k]) :
                x \in LinprogOptimal(topology, params, topology.nodes[k],
                        LinprogFeasible(topology, budget, params,
                                        topology.nodes[k]))}

\* The budgets for which the coverage of uniform_baseline is a whole
\* number of halves.
UniformExact(n, budget) ==
    \/ budget >= n * ASSET_COSTS("honeytoken")
    \/ (2 * budget) % (n * ASSET_COSTS("honeytoken")) = 0

SolveInputs ==
    {in \in [topology : {TopoPair, TopoChain, TopoTriangle},
             budget : {0, 100000000, 150000000, 300000000, 450000000},
             params : {UtilityParams(1, 1), UtilityParams(3, 1),
                       UtilityParams(1, 2)},
             sse : {NoSolution}, uniform : {NoSolution},
             static : {NoSolution}, heuristic : {NoSolution}] :
        UniformExact(Len(in.topology.nodes), in.budget)}

InitSolve ==
    /\ call \in [topology : {TopoEnterprise}, budget : {20}, max_rounds : {1},
                 seed : {NoSeed}, defender_actions : {<< >>},
                 attacker_path : {<< >>}, entry_point : {None}]
    /\ run = NewRun(1)
    /\ twin = NewRun(2)
    /\ mt = [k \in StreamKeys |-> << >>]
    /\ ctx = NoCtx
    /\ bench \in SolveInputs

SolveStackelberg ==
    /\ bench.sse = NoSolution
    /\ \E sol \in solve_stackelberg(bench.topology, bench.budget, bench.params) :
          bench' = [bench EXCEPT !.sse = sol]
    /\ UNCHANGED <<call, run, twin, mt, ctx>>

UniformBaseline ==
    /\ bench.sse # NoSolution
    /\ bench.uniform = NoSolution
    /\ bench' = [bench EXCEPT !.uniform =
                    uniform_baseline(bench.topology, bench.budget, bench.params)]
    /\ UNCHANGED <<call, run, twin, mt, ctx>>

SolveStatic ==
    /\ bench.uniform # NoSolution
    /\ StaticBaseline

SolveHeuristic ==
    /\ bench.static # NoSolution
    /\ HeuristicBaseline

NextSolve ==
    \/ SolveStackelberg
    \/ UniformBaseline
    \/ SolveStatic
    \/ SolveHeuristic

SpecSolve == InitSolve /\ [][NextSolve]_vars

\* ------------------------------------------------------------------ claims
Terminal == run.pc \in {"returned", "extracted", "raised"}
Returned == run.pc \in {"returned", "extracted"}
HasState == run.pc \notin {"call", "raised"}

\* C1: after every round evaluation, a detected attacker means game over
\* with winner "defender" (whatever was exfiltrated and even at the round
\* limit); otherwise, past the round limit the game is over and the winner
\* is "attacker" iff something was exfiltrated; otherwise the game goes on
\* with no winner.
C1_WinConditions ==
    [][run.pc = "evaluate_round" =>
        LET st == run'.state IN
        IF st.attacker.detected
        THEN st.game_over /\ st.winner = "defender"
        ELSE IF st.current_round > st.max_rounds
        THEN /\ st.game_over
             /\ (st.attacker.exfiltrated_value > 0 => st.winner = "attacker")
             /\ (st.attacker.exfiltrated_value = 0 => st.winner = "defender")
        ELSE ~st.game_over /\ st.winner = ""]_vars

\* C1 witness: a round evaluation has detected an attacker that had
\* exfiltrated value, in the last round allowed.
C1_Witness ==
    /\ run.pc = "returned"
    /\ run.state.attacker.detected
    /\ run.state.attacker.exfiltrated_value > 0
    /\ run.state.current_round > run.state.max_rounds
    /\ run.state.winner = "defender"

\* The final state run_game_sync is claimed to return.
GoodFinal ==
    /\ run.state.game_over
    /\ run.state.winner \in {"attacker", "defender"}
    /\ 0 <= run.state.current_round - 1
    /\ run.state.current_round - 1 <= run.state.max_rounds

\* C2 as stated: for every topology with an entry point, every deployment
\* sequence, every attacker path and max_rounds >= 1, the run ends by
\* returning a final state with game_over, a winner and at most max_rounds
\* rounds played.
C2_Original ==
    (entry_points(call.topology) # << >> /\ call.max_rounds >= 1 /\ Terminal)
        => (Returned /\ GoodFinal)

\* The calls run_game_sync accepts: known asset types, and a path that is
\* empty or starts at an entry point.
ValidCall ==
    /\ entry_points(call.topology) # << >>
    /\ call.max_rounds >= 1
    /\ \A i \in 1..Len(call.defender_actions) :
          call.defender_actions[i][1] \in AssetFactoryNames
    /\ \/ call.attacker_path = << >>
       \/ call.attacker_path[1] \in SeqToSet(entry_points(call.topology))

\* An upper bound on the steps run_game_sync (and the extraction of its
\* trial) still has to take: two per round not yet played.
StepsLeft ==
    CASE run.pc = "call" -> 2 * call.max_rounds + 3
      [] run.pc = "defender_setup" -> 2 * call.max_rounds + 2
      [] run.pc = "attacker_turn" -> 2 * (call.max_rounds - run.round_num) + 3
      [] run.pc = "evaluate_round" -> 2 * (call.max_rounds - run.round_num) + 2
      [] run.pc = "returned" -> 1
      [] OTHER -> 0

\* C2 amended: for a call with known asset types and a path that is empty
\* or starts at an entry point, the run never raises (the one way this
\* sequential code stops short of its return), never starts more than
\* max_rounds rounds, every step lowers the bound StepsLeft on the steps
\* still to take (so it returns), and the state it returns has game_over,
\* a winner and 0 <= current_round - 1 <= max_rounds.
C2_Terminates ==
    /\ [](ValidCall =>
            /\ run.pc # "raised"
            /\ run.round_num <= call.max_rounds
            /\ StepsLeft >= 0
            /\ (HasState => run.state.current_round - 1 <= call.max_rounds)
            /\ (Returned => GoodFinal))
    /\ [][ValidCall => StepsLeft' < StepsLeft]_vars

\* C2 witness: a valid call has returned after playing every round.
C2_Witness ==
    /\ ValidCall
    /\ run.pc = "returned"
    /\ run.state.game_over
    /\ run.state.current_round - 1 = call.max_rounds
    /\ call.max_rounds = MaxRounds
    /\ run.state.winner = "attacker"

\* C5: with nothing deployed the detection log stays empty and the attacker
\* undetected in every state of the game; the run returns after exactly
\* max_rounds rounds, and the winner is "attacker" iff something was
\* exfiltrated.
C5_NoAssetsNoDetection ==
    (/\ run.pc \in {"attacker_turn", "evaluate_round", "returned", "extracted"}
     /\ run.state.defender.deployed_assets = << >>)
        => /\ run.state.detections = << >>
           /\ ~run.state.attacker.detected
           /\ (Returned =>
                /\ run.state.current_round - 1 = run.state.max_rounds
                /\ (run.state.winner = "attacker"
                        <=> run.state.attacker.exfiltrated_value > 0))

\* C5 witness: a game without assets has returned with an attacker that
\* acted in every round and exfiltrated.
C5_Witness ==
    /\ run.pc = "returned"
    /\ run.state.defender.deployed_assets = << >>
    /\ call.defender_actions # << >>
    /\ run.state.attacker.exfiltrated_value > 0
    /\ run.state.current_round - 1 = MaxRounds
    /\ run.state.winner = "attacker"

\* C10: the trial extracted from a final state has rounds_played =
\* current_round - 1, num_detections = the number of detection events,
\* detection_round = the least round of the detection events (none when the
\* attacker was not detected) and dwell time = detection_round if detected,
\* else rounds_played.
C10_TrialExtraction ==
    run.pc = "extracted" =>
        LET t == run.trial
            st == run.state
        IN /\ t.rounds_played = st.current_round - 1
           /\ t.num_detections = Len(st.detections)
           /\ (st.attacker.detected =>
                /\ \E i \in 1..Len(st.detections) :
                      t.detection_round = st.detections[i].round
                /\ \A i \in 1..Len(st.detections) :
                      t.detection_round <= st.detections[i].round)
           /\ (~st.attacker.detected => t.detection_round = NoRound)
           /\ t.attacker_dwell_time =
                (IF st.attacker.detected THEN t.detection_round
                 ELSE t.rounds_played)

\* C10 witness: a trial extracted from a game that ended in round 2 with two
\* detection events.
C10_Witness ==
    /\ run.pc = "extracted"
    /\ run.state.attacker.detected
    /\ Len(run.state.detections) = 2
    /\ run.trial.rounds_played = 2
    /\ run.trial.detection_round = 2

\* The asset catalog of the specification: cost and detection probability
\* of an asset kind.
CatalogCost(kind) ==
    CASE kind = "honeypot" -> 30
      [] kind = "decoy_credential" -> 15
      [] kind = "honeytoken" -> 10

RECURSIVE SumCost(_, _)
SumCost(assets, n) ==
    IF n = 0 THEN 0 ELSE SumCost(assets, n - 1) + assets[n].cost

\* C4: when round evaluation starts with a pending action on the node of a
\* not yet triggered asset for which detection_probability * (1 + noise)
\* >= 1, it ends with that asset triggered, the attacker detected, the game
\* over with winner "defender", and one detection event per newly triggered
\* asset, the one of that asset carrying the round, the node, the asset
\* kind and the technique of a pending action on that node -- whatever the
\* generator drew.
C4_GuaranteedDetection ==
    [][run.pc = "evaluate_round" =>
        LET pre == run.state
            post == run'.state
            new == SubSeq(post.detections, Len(pre.detections) + 1,
                          Len(post.detections))
            Noise(a) == IF a.noise = NoNoise THEN 30 ELSE a.noise
            OnNode(n) == {a \in 1..Len(pre.actions_log) :
                            pre.actions_log[a].node_id = n}
        IN \A j \in 1..Len(pre.defender.deployed_assets) :
            LET asset == pre.defender.deployed_assets[j] IN
            (/\ ~asset.triggered
             /\ \E a \in OnNode(asset.node_id) :
                   asset.detection_probability
                        * (100 + Noise(pre.actions_log[a])) >= 10000)
            => /\ post.defender.deployed_assets[j].triggered
               /\ post.attacker.detected
               /\ post.game_over
               /\ post.winner = "defender"
               /\ \E e \in 1..Len(new) :
                    /\ new[e].round = pre.current_round
                    /\ new[e].node_id = asset.node_id
                    /\ new[e].asset_type = asset.asset_type
                    /\ \E a \in OnNode(asset.node_id) :
                          new[e].technique_id = pre.actions_log[a].technique_id
               /\ Len(new) = Cardinality(
                    {i \in 1..Len(pre.defender.deployed_assets) :
                        /\ ~pre.defender.deployed_assets[i].triggered
                        /\ post.defender.deployed_assets[i].triggered})]_vars

\* C4 witness: a round was evaluated in which the generator drew its
\* highest outputs only, and the attacker was detected all the same.
C4_Witness ==
    /\ run.pc = "returned"
    /\ call.seed = 1
    /\ mt[1] # << >>
    /\ \A i \in 1..Len(mt[1]) : mt[1][i] = 9900
    /\ run.state.current_round = 2
    /\ run.state.attacker.detected
    /\ run.state.winner = "defender"
    /\ Len(run.state.detections) >= 1

\* C7: the stub defender's setup, on a sequence of known asset types, raises
\* nothing and deploys exactly the pairs whose cost fitted the budget left
\* when their turn came, in sequence order: a refused pair changes neither
\* deployed_assets nor total_spent and does not keep later pairs from being
\* deployed.
C7_RejectedSkipped ==
    [][(run.pc = "defender_setup" /\ ~StubDefenderRaises(call.defender_actions)) =>
        LET acts == call.defender_actions
            D == run'.state.defender.deployed_assets
        IN /\ run'.pc # "raised"
           /\ run'.state.defender.total_spent = SumCost(D, Len(D))
           /\ \E f \in [1..Len(D) -> 1..Len(acts)] :
                /\ \A k \in 1..Len(D) : \A l \in 1..Len(D) : k < l => f[k] < f[l]
                /\ \A k \in 1..Len(D) :
                      /\ D[k].asset_type = acts[f[k]][1]
                      /\ D[k].node_id = acts[f[k]][2]
                      /\ D[k].cost = CatalogCost(acts[f[k]][1])
                /\ \A i \in 1..Len(acts) :
                      LET before == Cardinality({k \in 1..Len(D) : f[k] < i})
                      IN (\E k \in 1..Len(D) : f[k] = i)
                            <=> CatalogCost(acts[i][1])
                                    <= call.budget - SumCost(D, before)]_vars

\* C7 witness: the setup refused the first pair, a honeypot the budget did
\* not cover, and deployed the second.
C7_Witness ==
    /\ run.pc = "attacker_turn"
    /\ run.state.current_round = 1
    /\ Len(call.defender_actions) = 2
    /\ call.defender_actions[1][1] = "honeypot"
    /\ call.budget < 30
    /\ Len(run.state.defender.deployed_assets) = 1
    /\ run.state.defender.deployed_assets[1].asset_type = call.defender_actions[2][1]
    /\ run.state.defender.total_spent > 0

\* C9 as stated: after the defender setup no deployed asset sits on a node
\* the topology does not have, and no budget was spent on one.
C9_BadNodeSkipped ==
    (HasState /\ run.pc # "defender_setup") =>
        /\ \A i \in 1..Len(run.state.defender.deployed_assets) :
              run.state.defender.deployed_assets[i].node_id
                  \in NodeSet(call.topology)
        /\ run.state.defender.total_spent <=
              SumCost(SelectSeq(run.state.defender.deployed_assets,
                                LAMBDA a : a.node_id \in NodeSet(call.topology)),
                      Len(SelectSeq(run.state.defender.deployed_assets,
                                LAMBDA a : a.node_id \in NodeSet(call.topology))))

C6_BudgetInvariant ==
    /\ [](/\ ctx.defender.total_spent
                = SumCost(ctx.defender.deployed_assets,
                          Len(ctx.defender.deployed_assets))
          /\ ctx.defender.total_spent <= ctx.defender.budget
          /\ ctx.defender.budget - ctx.defender.total_spent >= 0)
    /\ [][(ctx'.calls = ctx.calls + 1 /\ ctx'.node_id \in NodeSet(ctx.topology)) =>
            LET cost == CatalogCost(ctx'.tool)
                accepted == ctx'.result = "deployed"
            IN /\ accepted <=>
                    cost <= ctx.defender.budget - ctx.defender.total_spent
               /\ accepted =>
                    /\ Len(ctx'.defender.deployed_assets)
                          = Len(ctx.defender.deployed_assets) + 1
                    /\ SubSeq(ctx'.defender.deployed_assets, 1,
                              Len(ctx.defender.deployed_assets))
                          = ctx.defender.deployed_assets
                    /\ LET a == ctx'.defender.deployed_assets[
                                    Len(ctx'.defender.deployed_assets)]
                       IN /\ a.asset_type = ctx'.tool
                          /\ a.node_id = ctx'.node_id
                          /\ a.cost = cost
                    /\ ctx'.defender.total_spent
                          = ctx.defender.total_spent + cost
               /\ ~accepted => ctx'.defender = ctx.defender]_vars

\* C6 witness: two deployments used the budget up to the last unit and a
\* third was refused.
C6_Witness ==
    /\ ctx.calls = 3
    /\ ctx.result = "Failed"
    /\ Len(ctx.defender.deployed_assets) = 2
    /\ ctx.defender.total_spent = ctx.defender.budget

\* Entry points of a topology, in node order, read off the node flags.
FlaggedEntries(topology) ==
    SelectSeq(topology.nodes,
              LAMBDA n : topology.attrs[n].is_entry_point)

\* C8: create_initial_state raises, and produces no state, exactly when the
\* topology has no entry point or the supplied entry point is not flagged
\* as one; otherwise the state it returns has current_round 1, game_over
\* false, winner "", empty detections and actions_log, no deployed asset,
\* nothing spent, and the attacker at the entry point (the first flagged
\* node when none is supplied) with path = [entry point].
C8_InitialState ==
    run.pc # "call" =>
        LET flagged == FlaggedEntries(call.topology)
            bad == \/ flagged = << >>
                   \/ /\ call.entry_point # None
                      /\ \A i \in 1..Len(flagged) : flagged[i] # call.entry_point
        IN /\ bad <=> run.pc = "raised"
           /\ run.pc = "raised" => run.state = NoState /\ run.error = "ValueError"
           /\ ~bad =>
                LET ep == IF call.entry_point = None THEN flagged[1]
                          ELSE call.entry_point
                IN /\ run.pc = "created"
                   /\ run.state.current_round = 1
                   /\ run.state.game_over = FALSE
                   /\ run.state.winner = ""
                   /\ run.state.detections = << >>
                   /\ run.state.actions_log = << >>
                   /\ run.state.defender.deployed_assets = << >>
                   /\ run.state.defender.total_spent = 0
                   /\ run.state.defender.budget = call.budget
                   /\ run.state.max_rounds = call.max_rounds
                   /\ run.state.topology = call.topology
                   /\ run.state.attacker.position = ep
                   /\ run.state.attacker.path = <<ep>>
                   /\ run.state.attacker.compromised_nodes = << >>
                   /\ run.state.attacker.exfiltrated_value = 0
                   /\ ~run.state.attacker.detected

\* C8 witness: the call was refused for a supplied node that exists in the
\* topology but is not flagged as an entry point.
C8_Witness ==
    /\ run.pc = "raised"
    /\ call.entry_point = "db-1"
    /\ call.topology = TopoEnterprise
    /\ run.state = NoState

\* The action kinds of a round's action log.
LogKinds(log) == [i \in 1..Len(log) |-> log[i].action]

\* The round logs a single step of the stub attacker can leave.
StepShapes ==
    {<< >>, <<"execute">>, <<"execute", "move">>,
     <<"execute", "move", "exfiltrate">>, <<"move">>,
     <<"move", "exfiltrate">>}

\* C17: one step per round. In every attacker turn all recorded actions
\* concern one target node, the position changes at most once (to that
\* node, which is appended once to the traversal record), the round's log
\* is one of [], [execute], [execute, move], [execute, move, exfiltrate],
\* [move], [move, exfiltrate]; a failed compromise roll leaves the log
\* [execute] and the attacker unchanged, and access or the compromised
\* list change only in a round whose log starts with execute.
C17_OneStepPerRound ==
    [][run.pc = "attacker_turn" =>
        LET before == run.state.attacker
            after == run'.state.attacker
            log == run'.state.actions_log
            kinds == LogKinds(log)
        IN /\ kinds \in StepShapes
           /\ \A i, j \in 1..Len(log) : log[i].node_id = log[j].node_id
           /\ IF "move" \in SeqToSet(kinds)
              THEN /\ after.position = log[1].node_id
                   /\ after.path = Append(before.path, log[1].node_id)
              ELSE /\ after.position = before.position
                   /\ after.path = before.path
           /\ kinds = <<"execute">> => after = before
           /\ (\/ after.compromised_nodes # before.compromised_nodes
               \/ after.access_levels # before.access_levels)
                 => kinds # << >> /\ kinds[1] = "execute"]_vars

\* C17 witness: a turn on a three-node path has logged one failed
\* compromise attempt on the second node and nothing on the third, which
\* is a neighbour of the position as well.
C17_Witness ==
    /\ run.pc = "evaluate_round"
    /\ Len(call.attacker_path) = 3
    /\ LogKinds(run.state.actions_log) = <<"execute">>
    /\ run.state.actions_log[1].node_id = call.attacker_path[2]
    /\ call.attacker_path[3] # call.attacker_path[2]
    /\ call.attacker_path[3]
          \in neighbors(run.state.topology, run.state.attacker.position)
    /\ run.state.attacker.compromised_nodes = << >>

\* The path nodes that differ from the position, in path order.
OffPosition(path, position) == SelectSeq(path, LAMBDA n : n # position)

\* C18 as stated: in an attacker turn, if the first path node that differs
\* from the position is no neighbour of the position, the turn ends there:
\* the attacker state is unchanged and the round's action log is empty.
C18_NonNeighbourEndsTurn ==
    [][run.pc = "attacker_turn" =>
        LET position == run.state.attacker.position
            rest == OffPosition(call.attacker_path, position)
        IN (rest # << >> /\ rest[1] \notin neighbors(run.state.topology, position))
            => /\ run'.state.attacker = run.state.attacker
               /\ run'.state.actions_log = << >>]_vars

\* The path has no node twice.
DistinctNodes(path) ==
    \A i, j \in 1..Len(path) : path[i] = path[j] => i = j

\* The index of a node in a path of distinct nodes (0 when absent).
IndexIn(path, n) ==
    IF n \in SeqToSet(path) THEN CHOOSE i \in 1..Len(path) : path[i] = n ELSE 0

\* C19 as stated: on a path of distinct nodes every move goes to a node
\* later in the path, so the traversal record attacker.path runs through
\* the path in order and holds no node twice.
C19_NeverMovesBack ==
    (HasState /\ DistinctNodes(call.attacker_path)) =>
        LET record == run.state.attacker.path
        IN \A i, j \in 1..Len(record) :
              i < j => IndexIn(call.attacker_path, record[i])
                          < IndexIn(call.attacker_path, record[j])

\* The path of C20: distinct nodes, consecutive nodes adjacent, each node
\* with a technique applicable without access.
WalkablePath(topology, path) ==
    /\ path # << >>
    /\ DistinctNodes(path)
    /\ \A i \in 1..(Len(path) - 1) : path[i + 1] \in neighbors(topology, path[i])
    /\ \A i \in 1..Len(path) :
          get_applicable_techniques(get_attrs(topology, path[i]), "none") # << >>

\* The attacker turns completed so far.
TurnsDone ==
    IF run.pc = "attacker_turn" THEN run.round_num - 1 ELSE run.round_num

\* C20 as stated, in its bounded form: on such a path that starts at the
\* entry point, with every compromise roll succeeding (the generator's
\* output 0.10 is below every success rate), no detection and
\* max_rounds >= len(path) - 1, the position has been the last path node
\* (the traversal record holds it) once len(path) - 1 attacker turns are
\* done.
C20_ReachesLastNode ==
    (/\ HasState /\ run.pc # "defender_setup"
     /\ WalkablePath(call.topology, call.attacker_path)
     /\ call.max_rounds >= Len(call.attacker_path) - 1
     /\ mt[AttackerKey(run)] \in {<< >>, <<1000>>}
     /\ ~run.state.attacker.detected
     /\ TurnsDone >= Len(call.attacker_path) - 1)
        => call.attacker_path[Len(call.attacker_path)]
              \in SeqToSet(run.state.attacker.path)

\* C11 as stated: the progress callback is invoked once per trial run, in
\* run order, with current = 1, 2, 3, ... and a constant total, and the
\* last invocation has current = total = the number of trial records
\* returned.
C11_ProgressCallback ==
    bench.config.progress_callback =>
        /\ Len(bench.calls) = Len(bench.all_trials)
        /\ \A k \in 1..Len(bench.calls) :
              /\ bench.calls[k].current = k
              /\ bench.calls[k].total = bench.total_runs
              /\ bench.calls[k].description
                    = <<bench.all_trials[k].topology, bench.all_trials[k].strategy>>
        /\ (bench.pc = "returned" /\ bench.calls # << >>) =>
              LET last == bench.calls[Len(bench.calls)]
              IN /\ last.current = last.total
                 /\ last.current = Len(bench.trial_results)

\* Some asset kind has a probability at the node.
Covered(coverage, nid) == coverage[nid] # NoCoverage

\* The expected cost of the assets at one node.
NodeCost(node_coverage) ==
    (node_coverage["honeypot"] * ASSET_COSTS("honeypot")
     + node_coverage["decoy_credential"] * ASSET_COSTS("decoy_credential")
     + node_coverage["honeytoken"] * ASSET_COSTS("honeytoken")) \div 2

\* The cost of the assets at the first k nodes of the ranking.
RECURSIVE SpentUpTo(_, _, _)
SpentUpTo(coverage, ranking, k) ==
    IF k = 0 THEN 0
    ELSE SpentUpTo(coverage, ranking, k - 1) + NodeCost(coverage[ranking[k]])

\* The statement of C16 about one greedy allocation, a cost fitting the
\* remaining budget up to `slack`: the covered nodes are a prefix of the
\* ranking, no uncovered node has a larger key than a covered one, every
\* covered node holds one asset kind with probability 1.0 - the first of
\* honeypot, decoy credential, honeytoken that fits what the nodes ranked
\* before it left - and the total cost is within the budget.
GreedyClaim(budget, coverage, ranking, key, slack) ==
    /\ \A i, j \in 1..Len(ranking) :
          (Covered(coverage, ranking[j]) /\ ~Covered(coverage, ranking[i])) => j < i
    /\ \A i, j \in 1..Len(ranking) :
          (Covered(coverage, ranking[j]) /\ ~Covered(coverage, ranking[i]))
              => key[ranking[j]] >= key[ranking[i]]
    /\ \A i \in 1..Len(ranking) : Covered(coverage, ranking[i]) =>
          \E k \in 1..Len(DeceptionType) :
              /\ coverage[ranking[i]] = OneAsset(DeceptionType[k], 2)
              /\ ASSET_COSTS(DeceptionType[k])
                    <= budget - SpentUpTo(coverage, ranking, i - 1) + slack
              /\ \A h \in 1..(k - 1) :
                    ASSET_COSTS(DeceptionType[h])
                        > budget - SpentUpTo(coverage, ranking, i - 1) + slack
    /\ SpentUpTo(coverage, ranking, Len(ranking)) <= budget + slack

\* C16 as stated: the value-greedy and the centrality-greedy allocation
\* cover a prefix of their ranking, each covered node with the first asset
\* kind whose cost fits the remaining budget, and the total cost never
\* exceeds the budget.
C16_Original ==
    /\ bench.static # NoSolution =>
          GreedyClaim(bench.budget, bench.static.coverage,
                      ValueRanking(bench.topology),
                      [nid \in NodeSet(bench.topology) |->
                          get_attrs(bench.topology, nid).value], 0)
    /\ bench.heuristic # NoSolution =>
          GreedyClaim(bench.budget, bench.heuristic.coverage,
                      CentralityRanking(bench.topology),
                      degree_centrality(bench.topology), 0)

\* C16, amended: the same with a cost that fits when it is at most the
\* remaining budget plus the tolerance 1e-8 of the comparison, so that the
\* total cost exceeds the budget by at most 1e-8.
C16_GreedyAllocation ==
    /\ bench.static # NoSolution =>
          GreedyClaim(bench.budget, bench.static.coverage,
                      ValueRanking(bench.topology),
                      [nid \in NodeSet(bench.topology) |->
                          get_attrs(bench.topology, nid).value], CostTol)
    /\ bench.heuristic # NoSolution =>
          GreedyClaim(bench.budget, bench.heuristic.coverage,
                      CentralityRanking(bench.topology),
                      degree_centrality(bench.topology), CostTol)

\* C16 witness: with a budget of 4.5 the value-greedy allocation has put
\* a honeypot on the most valuable node of the chain and a decoy
\* credential on the next, and left the last node uncovered; the
\* centrality-greedy one has covered the middle node first.
C16_Witness ==
    /\ bench.topology = TopoChain
    /\ bench.budget = 450000000
    /\ bench.static # NoSolution
    /\ bench.heuristic # NoSolution
    /\ bench.static.coverage["c"] = OneAsset("honeypot", 2)
    /\ bench.static.coverage["b"] = OneAsset("decoy_credential", 2)
    /\ bench.static.coverage["a"] = NoCoverage
    /\ bench.heuristic.coverage["b"] = OneAsset("honeypot", 2)
    /\ bench.heuristic.coverage["c"] = NoCoverage

\* The statement of C15 about one solution built by _build_solution: the
\* target has the largest attacker EU of all nodes; of the nodes within
\* the tolerance of its attacker EU it has the largest defender EU; and
\* the two utilities returned are those at the target.
BestResponseClaim(topology, params, sol) ==
    LET a_eu(nid) == AttackerEU(get_attrs(topology, nid).value,
                                sol.detection_probabilities[nid], params)
        d_eu(nid) == DefenderEU(get_attrs(topology, nid).value,
                                sol.detection_probabilities[nid], params)
        target == sol.attacker_target
    IN /\ target \in NodeSet(topology)
       /\ \A nid \in NodeSet(topology) : a_eu(target) >= a_eu(nid)
       /\ \A nid \in NodeSet(topology) :
             Abs(a_eu(nid) - a_eu(target)) < Tol => d_eu(target) >= d_eu(nid)
       /\ sol.attacker_expected_utility = a_eu(target)
       /\ sol.defender_expected_utility = d_eu(target)

\* C15 as stated: the best response returned for the detection
\* probabilities of a baseline's coverage is a node of maximal attacker
\* EU, of maximal defender EU among the nodes that tie with it within
\* 1e-8, and the returned utilities are those evaluated at it.
C15_BestResponse ==
    /\ bench.static # NoSolution =>
          BestResponseClaim(bench.topology, bench.params, bench.static)
    /\ bench.heuristic # NoSolution =>
          BestResponseClaim(bench.topology, bench.params, bench.heuristic)

\* solve_stackelberg has returned a solution.
Solved == bench.sse # NoSolution /\ bench.sse # RuntimeError

\* The attacker's expected utility at a node under a solution's detection
\* probabilities.
SolutionAttackerEU(sol, nid) ==
    AttackerEU(get_attrs(bench.topology, nid).value,
               sol.detection_probabilities[nid], bench.params)

\* C12: in the solution returned by solve_stackelberg the reported target
\* is an attacker best response to the returned detection probabilities:
\* its attacker EU is at least that of every node (exactly, hence within
\* the 1e-6 of the claim).
C12_BestResponseConsistency ==
    Solved =>
        /\ bench.sse.attacker_target \in NodeSet(bench.topology)
        /\ \A t \in NodeSet(bench.topology) :
              SolutionAttackerEU(bench.sse, bench.sse.attacker_target)
                  >= SolutionAttackerEU(bench.sse, t)
        /\ bench.sse.attacker_expected_utility
              = SolutionAttackerEU(bench.sse, bench.sse.attacker_target)

\* C12 witness: a solution that covers its target and another node, the
\* other node's attacker EU brought down to the target's.
C12_Witness ==
    /\ Solved
    /\ bench.sse.detection_probabilities[bench.sse.attacker_target] > 0
    /\ \E t \in NodeSet(bench.topology) \ {bench.sse.attacker_target} :
          /\ bench.sse.detection_probabilities[t] > 0
          /\ SolutionAttackerEU(bench.sse, t)
                = SolutionAttackerEU(bench.sse, bench.sse.attacker_target)

MaxValueNodes(topology) ==
    {t \in NodeSet(topology) : \A u \in NodeSet(topology) :
        get_attrs(topology, u).value <= get_attrs(topology, t).value}

\* C14: fallback invariant. On a topology with a node, values >= 0 and a
\* budget >= 0, the all-zero coverage vector is within the bounds and
\* satisfies every row (per-node sum, budget, best response) of the LP of
\* every node of largest value, and solve_stackelberg does not raise its
\* all-LPs-infeasible error.
C14_ZeroCoverageFeasible ==
    /\ \A t_star \in MaxValueNodes(bench.topology) :
          /\ [nid \in NodeSet(bench.topology) |-> NoCoverage]
                \in BoundedVectors(bench.topology)
          /\ Feasible(bench.topology, bench.budget, bench.params,
                      [nid \in NodeSet(bench.topology) |-> NoCoverage], t_star)
    /\ bench.sse # RuntimeError

\* C14 witness: with budget 0 on the chain the solver has returned the
\* zero coverage, its target the node of largest value.
C14_Witness ==
    /\ Solved
    /\ bench.budget = 0
    /\ bench.topology = TopoChain
    /\ bench.sse.coverage = [nid \in NodeSet(bench.topology) |-> NoCoverage]
    /\ bench.sse.attacker_target \in MaxValueNodes(bench.topology)

\* An execute action is among the logged actions.
ExecuteLogged(actions) ==
    \E i \in 1..Len(actions) : actions[i].action = "execute"

\* C21: the game uses one attacker generator seeded once with the game
\* seed, so a compromise roll made after an earlier one of the same game
\* is a further output of that generator: the stream read from the seed
\* grows by one. (For a seed that is no round index, so that mt[seed] is
\* read by attacker turns alone.)
C21_OneAttackerGenerator ==
    [][(/\ run.pc = "attacker_turn"
        /\ call.seed \notin 1..MaxRounds
        /\ mt[AttackerKey(run)] # << >>
        /\ ExecuteLogged(run'.state.actions_log))
       => Len(mt'[AttackerKey(run)]) = Len(mt[AttackerKey(run)]) + 1]_vars

IsPrefix(a, b) == Len(a) <= Len(b) /\ SubSeq(b, 1, Len(a)) = a

\* The number of deployed assets that have triggered.
TriggeredCount(defender) ==
    Cardinality({j \in 1..Len(defender.deployed_assets) :
                    defender.deployed_assets[j].triggered})

\* C22: over all rounds of a game the detection log only grows at its end,
\* a triggered flag never returns to false, and after every step there are
\* as many detection events as triggered assets (so no asset triggers
\* twice), at most the number of deployed assets.
C22_DetectionsAppendOnly ==
    [][/\ (run.state # NoState /\ run'.state # NoState) =>
            /\ IsPrefix(run.state.detections, run'.state.detections)
            /\ \A j \in 1..Len(run.state.defender.deployed_assets) :
                  run.state.defender.deployed_assets[j].triggered =>
                      /\ j <= Len(run'.state.defender.deployed_assets)
                      /\ run'.state.defender.deployed_assets[j].triggered
       /\ run'.state # NoState =>
            /\ Len(run'.state.detections) = TriggeredCount(run'.state.defender)
            /\ TriggeredCount(run'.state.defender)
                  <= Len(run'.state.defender.deployed_assets)]_vars

\* C22 witness: two assets on one node; the execute against the node
\* triggered one of them, the move and the exfiltration that followed on
\* the same node did not roll it again, and the other asset stayed silent.
C22_Witness ==
    /\ run.pc = "returned"
    /\ Len(run.state.defender.deployed_assets) = 2
    /\ run.state.defender.deployed_assets[1].node_id
          = run.state.defender.deployed_assets[2].node_id
    /\ TriggeredCount(run.state.defender) = 1
    /\ Len(run.state.detections) = 1
    /\ run.state.detections[1].technique_id = "T1190"
    /\ run.state.attacker.exfiltrated_value > 0

\* The place of an action kind in one attacker step.
KindRank(kind) ==
    CASE kind = "execute" -> 1
      [] kind = "move" -> 2
      [] kind = "exfiltrate" -> 3

\* The pending actions are in the order the attacker performed them.
InExecutionOrder(actions) ==
    \A i \in 1..Len(actions) : \A k \in (i + 1)..Len(actions) :
        KindRank(actions[i].action) < KindRank(actions[k].action)

\* The events come from (action, asset) pairs taken in the order of the
\* actions and, for one action, in the order of deployment.
EventsInOrder(events, actions, assets) ==
    \E f \in [1..Len(events) -> (1..Len(actions)) \X (1..Len(assets))] :
        /\ \A m \in 1..Len(events) :
              /\ events[m].node_id = actions[f[m][1]].node_id
              /\ events[m].technique_id = actions[f[m][1]].technique_id
              /\ assets[f[m][2]].node_id = events[m].node_id
              /\ assets[f[m][2]].asset_type = events[m].asset_type
        /\ \A m \in 1..(Len(events) - 1) :
              \/ f[m][1] < f[m + 1][1]
              \/ f[m][1] = f[m + 1][1] /\ f[m][2] < f[m + 1][2]

\* C23: detection evaluation preserves execution order. The pending
\* actions of a round are in the order execute, move, exfiltrate; the
\* events a round evaluation appends follow the order of the actions and,
\* for one action, the deployment order of the assets on its node, and
\* each event carries the technique id of its action.
C23_EvaluationOrder ==
    [][run.pc = "evaluate_round" =>
          /\ InExecutionOrder(run.state.actions_log)
          /\ IsPrefix(run.state.detections, run'.state.detections)
          /\ EventsInOrder(SubSeq(run'.state.detections,
                                  Len(run.state.detections) + 1,
                                  Len(run'.state.detections)),
                           run.state.actions_log,
                           run.state.defender.deployed_assets)]_vars

\* C23 witness: the asset deployed second triggered on the execute and the
\* asset deployed first on the move that followed, so the log has the
\* second asset's event before the first's.
C23_Witness ==
    /\ run.pc = "returned"
    /\ Len(run.state.detections) = 2
    /\ Len(run.state.defender.deployed_assets) = 2
    /\ run.state.detections[1].technique_id = "T1190"
    /\ run.state.detections[1].asset_type
          = run.state.defender.deployed_assets[2].asset_type
    /\ run.state.detections[2].technique_id = "lateral_movement"
    /\ run.state.detections[2].asset_type
          = run.state.defender.deployed_assets[1].asset_type
    /\ run.state.defender.deployed_assets[1].asset_type
          # run.state.defender.deployed_assets[2].asset_type

\* The deployment d2 is the deployment d, but for triggered flags that went
\* from false to true.
Frozen(d, d2) ==
    /\ d2.budget = d.budget
    /\ d2.total_spent = d.total_spent
    /\ Len(d2.deployed_assets) = Len(d.deployed_assets)
    /\ \A j \in 1..Len(d.deployed_assets) :
          /\ [d2.deployed_assets[j] EXCEPT
                 !.triggered = d.deployed_assets[j].triggered]
                = d.deployed_assets[j]
          /\ d.deployed_assets[j].triggered => d2.deployed_assets[j].triggered

\* C24: after the defender setup phase the deployment is frozen. An
\* attacker turn and the extraction of the trial leave the defender as it
\* is; a round evaluation leaves budget, total_spent and the deployed
\* assets as they are, but for triggered flags going from false to true.
C24_DefenderFrozen ==
    [][run.pc \in {"attacker_turn", "evaluate_round", "returned"} =>
          /\ Frozen(run.state.defender, run'.state.defender)
          /\ run.pc # "evaluate_round" =>
                run'.state.defender = run.state.defender]_vars

\* C24 witness: two assets on two nodes were paid for in the setup phase;
\* the first round passed without a detection, the second triggered one of
\* the two.
C24_Witness ==
    /\ run.pc = "returned"
    /\ run.state.current_round = 3
    /\ Len(run.state.defender.deployed_assets) = 2
    /\ run.state.defender.deployed_assets[1].node_id
          # run.state.defender.deployed_assets[2].node_id
    /\ run.state.defender.total_spent = 25
    /\ TriggeredCount(run.state.defender) = 1

\* C25: every call of evaluate_round, ending the game or not, returns an
\* empty pending action log and a round counter advanced by exactly 1; the
\* events it appends carry the round it evaluated, and an attacker turn
\* starts from an empty log, so an action is evaluated in the round in
\* which it was performed and in no other.
C25_LogClearedRoundAdvanced ==
    [][/\ run.pc = "evaluate_round" =>
            /\ run'.state.actions_log = << >>
            /\ run'.state.current_round = run.state.current_round + 1
            /\ \A m \in (Len(run.state.detections) + 1)
                            ..Len(run'.state.detections) :
                  run'.state.detections[m].round = run.state.current_round
       /\ run.pc = "attacker_turn" => run.state.actions_log = << >>]_vars

\* C25 witness: the evaluation of round 1 did not end the game; the
\* attacker moved in round 1 and the second turn starts from an empty log.
C25_Witness ==
    /\ run.pc = "attacker_turn"
    /\ run.state.current_round = 2
    /\ ~run.state.game_over
    /\ Len(run.state.attacker.path) = 2
    /\ run.state.actions_log = << >>
    /\ run.state.defender.deployed_assets # << >>

\* The call recorded in c2 fails validation on the context c it was made on.
FailsValidation(c, c2) ==
    LET tech == TECHNIQUE_BY_ID(c2.technique_id)
        known == c2.node_id \in NodeSet(c.topology)
        access == AccessGet(c.attacker.access_levels, c2.node_id)
    IN CASE c2.tool = "execute_technique" ->
              \/ ~known
              \/ ~KnownTechnique(c2.technique_id)
              \/ AccessRank(access) < AccessRank(tech.required_access)
              \/ ~applicable_to(tech, get_attrs(c.topology, c2.node_id))
         [] c2.tool = "move_lateral" ->
              \/ c2.node_id \notin neighbors(c.topology, c.attacker.position)
              \/ access = "none"
         [] c2.tool = "exfiltrate" ->
              \/ ~known
              \/ access = "none"

\* C26: an attacker tool call that fails validation returns a failure
\* message ("Error: ..." or "Failed: ...") and leaves position, access
\* levels, path, compromised set, exfiltrated_value (the attacker state),
\* the topology and the round's action log as they were; a call that
\* passes validation returns neither message.
C26_FailedCallChangesNothing ==
    [][/\ FailsValidation(ctx, ctx') =>
            /\ ctx'.result \in {"Error", "Failed"}
            /\ ctx'.attacker = ctx.attacker
            /\ ctx'.topology = ctx.topology
            /\ ctx'.actions_this_round = ctx.actions_this_round
       /\ ctx'.result \in {"Error", "Failed"} => FailsValidation(ctx, ctx')]_vars

\* C26 witness: after a successful compromise and a move, a technique
\* that does not apply to the node is refused and the context still holds
\* the two earlier actions.
C26_Witness ==
    /\ ctx.calls = 3
    /\ ctx.tool = "execute_technique"
    /\ ctx.technique_id = "T1059.001"
    /\ ctx.result = "Failed"
    /\ Len(ctx.actions_this_round) = 2
    /\ ctx.attacker.position = "router-1"
    /\ Len(ctx.attacker.path) = 2

\* C27: run_game_sync refines the graph. On the same arguments (any
\* max_rounds >= 0) the state run_game_sync returns is the state in which
\* the graph of build_game_graph ends, and the one raises what the other
\* raises.
C27_SyncRefinesGraph ==
    /\ (run.pc = "returned" /\ twin.pc = "end") => twin.state = run.state
    /\ (run.pc = "raised" \/ twin.pc = "raised") =>
          (twin.pc = run.pc /\ twin.error = run.error)

\* The sum of the node values of path[2..n].
RECURSIVE PathValue(_, _, _)
PathValue(topology, path, n) ==
    IF n <= 1 THEN 0
    ELSE PathValue(topology, path, n - 1) + get_attrs(topology, path[n]).value

\* C28: in every state of a stub-attacker game exfiltrated_value is the
\* sum of the node values of the entries of the traversal path after the
\* initial entry point, a node counted once for every move onto it; the
\* entry point's value is in the sum only for moves back onto it.
C28_ExfiltratedIsPathValue ==
    HasState =>
        run.state.attacker.exfiltrated_value
            = PathValue(run.state.topology, run.state.attacker.path,
                        Len(run.state.attacker.path))

\* C28 witness: the attacker left an entry point of positive value and
\* moved back onto it; what it exfiltrated is that node's value plus the
\* value 0 of the node in between.
C28_Witness ==
    /\ HasState
    /\ Len(run.state.attacker.path) = 3
    /\ run.state.attacker.path[1] = run.state.attacker.path[3]
    /\ run.state.attacker.path[2] # run.state.attacker.path[1]
    /\ run.state.attacker.exfiltrated_value
          = get_attrs(run.state.topology, run.state.attacker.path[1]).value
    /\ run.state.attacker.exfiltrated_value > 0

\* C29: no attacker turn starts once the attacker has been detected, so in
\* every state run_game_sync returns all detection events carry one round
\* number, the number of rounds played (current_round - 1); detected holds
\* iff the detection log is non-empty; and the dwell time of the extracted
\* trial is its rounds_played.
C29_DetectionEndsGame ==
    /\ run.pc = "attacker_turn" =>
          /\ ~run.state.attacker.detected
          /\ run.state.detections = << >>
    /\ Returned =>
          /\ \A i \in 1..Len(run.state.detections) :
                run.state.detections[i].round = run.state.current_round - 1
          /\ run.state.attacker.detected <=> run.state.detections # << >>
    /\ run.pc = "extracted" =>
          /\ run.trial.attacker_dwell_time = run.trial.rounds_played
          /\ run.trial.detected =>
                run.trial.detection_round = run.trial.rounds_played

\* C29 witness: the trial of a game whose first round passed unseen and
\* whose second round, short of the round limit's verdict, set off two
\* assets.
C29_Witness ==
    /\ run.pc = "extracted"
    /\ run.trial.detected
    /\ run.trial.num_detections = 2
    /\ run.trial.detection_round = 2
    /\ run.trial.attacker_dwell_time = 2
    /\ run.trial.rounds_played = 2

\* The traversal path of an attacker state is consistent with the topology
\* and with what the attacker holds.
PathConsistent(state) ==
    LET attacker == state.attacker
        path == attacker.path
    IN /\ path # << >>
       /\ attacker.position = path[Len(path)]
       /\ \A i \in 1..(Len(path) - 1) :
             path[i + 1] \in neighbors(state.topology, path[i])
       /\ \A i \in 2..Len(path) :
             /\ AccessRank(AccessGet(attacker.access_levels, path[i])) >= 1
             /\ path[i] \in SeqToSet(attacker.compromised_nodes)
             /\ get_attrs(state.topology, path[i]).compromised

\* C30: in every state of a stub-attacker game the position is the last
\* element of the traversal path, consecutive path elements are adjacent,
\* and every path element after the initial entry point is a node with at
\* least user access, in the compromised set and flagged compromised in
\* the topology; and no step lowers an access level.
C30_PathConsistent ==
    /\ [](HasState => PathConsistent(run.state))
    /\ [][(HasState /\ run'.pc # "raised") =>
            \A n \in NodeSet(run.state.topology) :
                AccessRank(AccessGet(run'.state.attacker.access_levels, n))
                    >= AccessRank(AccessGet(run.state.attacker.access_levels, n))]_vars

\* C30 witness: two moves over three different nodes, from an entry point
\* that was never compromised.
C30_Witness ==
    /\ HasState
    /\ Len(run.state.attacker.path) = 3
    /\ Cardinality(SeqToSet(run.state.attacker.path)) = 3
    /\ Len(run.state.attacker.compromised_nodes) = 2
    /\ run.state.attacker.path[1] \notin SeqToSet(run.state.attacker.compromised_nodes)
    /\ run.state.attacker.position = run.state.attacker.path[3]

====
